---- MODULE Spec2Model ----
(***************************************************************************)
(* A model of the j2gbc CPU core: the decoder (j2gbc/src/inst.rs), the     *)
(* executor, the interrupt dispatch and the duration-bounded runner        *)
(* (src/emu/cpu/mod.rs).  The memory bus, the LCD pump, the ALU flag word  *)
(* and the Address arithmetic live in files that are not part of the       *)
(* sources at hand; they are modelled from the specification's section 6.  *)
(***************************************************************************)
EXTENDS Integers, Sequences, FiniteSets, TLC

VARIABLES
    registers,                \* Cpu.registers: [u8; 8], indexed by Register8
    pc,                       \* Cpu.pc
    sp,                       \* Cpu.sp
    cycle,                    \* Cpu.cycle
    interrupt_master_enable,  \* Cpu.interrupt_master_enable
    halted,                   \* Cpu.halted
    debug_halted,             \* Cpu.debug_halted
    last_instructions,        \* Cpu.last_instructions (the trace ring)
    breakpoints,              \* Cpu.breakpoints
    ram,                      \* Cpu.mmu: the writable bytes of the bus
    interrupt_enable,         \* Cpu.mmu.interrupt_enable
    cart,                     \* Cpu.mmu.cart: which cartridge is plugged in
    rpc,                      \* position of the caller inside run_for_duration
    stop_at_cycle,            \* run_for_duration's local stop_at_cycle
    call,                     \* the running call's entry cycle and duration
    ev,                       \* what the last step did (history)
    pending,                  \* interrupts main's loop saw returned while IME
                              \* was clear and not dispatched since (history)
    bytes,                    \* the window handed to Instruction::decode
    decoded,                  \* what Instruction::decode returned for it
    lcd,                      \* Cpu.mmu.lcd: the events it has still to fire
    halted_at,                \* the cycle at which the CPU last halted (history)
    buttons,                  \* debugger Context: which tool buttons are sensitive
    local_queue,              \* CpalSink.local_queue
    queue,                    \* CpalSink.queue: the ring buffer behind the mutex
    mutex,                    \* which thread holds the lock of CpalSink.queue
    ppc,                      \* position of the emulator thread inside emit_sample
    cpc,                      \* position of the audio thread inside its callback
    emitted,                  \* samples handed to emit_sample so far (history)
    pushed,                   \* every sample written to the ring buffer (history)
    seen                      \* samples written when the callback last read (history)

vars == <<registers, pc, sp, cycle, interrupt_master_enable, halted, debug_halted,
          last_instructions, breakpoints, ram, interrupt_enable, cart, rpc,
          stop_at_cycle, call, ev, pending, bytes, decoded, lcd, halted_at,
          buttons, local_queue, queue, mutex, ppc, cpc, emitted, pushed, seen>>

\* The LCD when it is scheduled, and the history of the halt it serves.
lcdVars == <<lcd, halted_at>>

\* The host around the core: the debugger window and the audio sink.
audioVars == <<local_queue, queue, mutex, ppc, cpc, emitted, pushed, seen>>
hostVars == <<buttons, audioVars>>

(***************************************************************************)
(* Bounds of the model.                                                    *)
(***************************************************************************)
\* Words of stack RAM below the initial SP that the bus accepts writes to.
StackWords == 3
\* No new call or direct run_cycle starts once the cycle counter passed this.
MaxCycle == 24
\* Upper end of the next-event cycles the LCD may report.
MaxEventCycle == 8
\* Number of breakpoints the debugger sets at a time.
MaxBreakpoints == 1
\* main's long loop stops when the cycle counter is beyond this: 53 NOPs.
MaxTraceCycle == 208

(***************************************************************************)
(* Program constants.                                                      *)
(***************************************************************************)
CLOCK_RATE == 4190000
NSEC_PER_SEC == 1000000000
TraceCap == 50
InitialPC == 256
InitialSP == 65534
TestPC == 336

W16 == 65536
W8 == 256

Register8 == {"A", "F", "B", "C", "D", "E", "H", "L"}
Interrupts == {"VBlank", "LCDStat", "Timer", "Serial", "Joypad"}
NoInterrupt == "None"

(***************************************************************************)
(* alu: byte helpers and the flag word.                                    *)
(***************************************************************************)
hi(v) == (v \div W8) % W8
lo(v) == v % W8
hi_lo(h, l) == h * W8 + l

Bit(v, n) == (v \div (2 ^ n)) % 2
get_zero(f) == Bit(f, 7) = 1
get_carry(f) == Bit(f, 4) = 1
\* Flags::set_*(b): set or clear one bit of the flag word, the others kept.
SetBit(v, n, b) == v - Bit(v, n) * (2 ^ n) + (IF b THEN 2 ^ n ELSE 0)
set_subtract(f, b) == SetBit(f, 6, b)
set_halfcarry(f, b) == SetBit(f, 5, b)
set_carry(f, b) == SetBit(f, 4, b)

\* Flags from its four bits: Z is bit 7, N bit 6, H bit 5, C bit 4.
MakeFlags(z, n, h, cy) ==
    (IF z THEN 128 ELSE 0) + (IF n THEN 64 ELSE 0) + (IF h THEN 32 ELSE 0)
        + (IF cy THEN 16 ELSE 0)

\* A carry as a number.
CarryIn(cy) == IF cy THEN 1 ELSE 0

\* alu::add, adc, sub, sbc return [v, f]: the result and the flags.
add(a, b) ==
    [v |-> (a + b) % W8,
     f |-> MakeFlags((a + b) % W8 = 0, FALSE, (a % 16) + (b % 16) > 15, a + b > 255)]

adc(a, b, cy) ==
    [v |-> (a + b + CarryIn(cy)) % W8,
     f |-> MakeFlags((a + b + CarryIn(cy)) % W8 = 0, FALSE,
                     (a % 16) + (b % 16) + CarryIn(cy) > 15,
                     a + b + CarryIn(cy) > 255)]

sub(a, b) ==
    [v |-> (a - b + W8) % W8,
     f |-> MakeFlags(a = b, TRUE, (a % 16) < (b % 16), a < b)]

sbc(a, b, cy) ==
    [v |-> (a - b - CarryIn(cy) + 2 * W8) % W8,
     f |-> MakeFlags((a - b - CarryIn(cy) + 2 * W8) % W8 = 0, TRUE,
                     (a % 16) < (b % 16) + CarryIn(cy),
                     a < b + CarryIn(cy))]

\* Address arithmetic wraps at 16 bits.
AddrAdd(a, d) == (a + d + W16) % W16
\* `as i8` of a byte.
AsI8(b) == IF b >= 128 THEN b - 256 ELSE b

(***************************************************************************)
(* Operands and instructions (j2gbc/src/inst.rs).  An instruction is a     *)
(* record [t, op, x, y]: t the Instruction variant, op the variant of the  *)
(* family (Arith, Bits, Control, Load, Logic), x and y its operands.       *)
(***************************************************************************)
Nil == "-"
Immediate(v) == [k |-> "Immediate", v |-> v]
Register(r) == [k |-> "Register", v |-> r]
IndirectRegister(r) == [k |-> "IndirectRegister", v |-> r]
IndirectAddress(a) == [k |-> "IndirectAddress", v |-> a]

Inst(t, op, x, y) == [t |-> t, op |-> op, x |-> x, y |-> y]
Plain(t) == Inst(t, Nil, Nil, Nil)
Arith(op, x, y) == Inst("Arith", op, x, y)
Bits(op, x, y) == Inst("Bits", op, x, y)
Control(op, x, y) == Inst("Control", op, x, y)
\* A Load with its two fields exchanged.
Load_exchanged(op, x, y) == Inst("Load", op, y, x)

Load(op, x, y) == Inst("Load", op, x, y)
Logic(op, x) == Inst("Logic", op, x, Nil)

\* Operand::from_bits(byte, shift): the 3-bit register field.
OperandFromBits(byte, shift) ==
    LET f == (byte \div (2 ^ shift)) % 8 IN
    CASE f = 0 -> Register("B")
      [] f = 1 -> Register("C")
      [] f = 2 -> Register("D")
      [] f = 3 -> Register("E")
      [] f = 4 -> Register("H")
      [] f = 5 -> Register("L")
      [] f = 6 -> IndirectRegister("HL")
      [] f = 7 -> Register("A")

\* ConditionCode::from_bits(byte): opcode bits 3-4.
ConditionCodeFromBits(byte) ==
    LET f == (byte \div 8) % 4 IN
    CASE f = 0 -> "NZ"
      [] f = 1 -> "Z"
      [] f = 2 -> "NC"
      [] f = 3 -> "C"

\* get_bits_bit that takes the bit index from bits 2:0.
get_bits_bit_low(i) == i % 8

get_bits_bit(i) == (i \div 8) % 8

\* An Ok that reports one byte for every instruction.
DecodeOk_one_byte(i, n) == [ok |-> TRUE, inst |-> i, len |-> 1]

DecodeOk(i, n) == [ok |-> TRUE, inst |-> i, len |-> n]

\* An unknown instruction decoded as Nop.
DecodeErr_as_nop == DecodeOk(Plain("Nop"), 1)

DecodeErr == [ok |-> FALSE, inst |-> Plain("Nop"), len |-> 0]

\* The 0xCB table.
DecodeCB(b1) ==
    LET o == OperandFromBits(b1, 0) IN
    CASE b1 \in 0..7 -> DecodeOk(Bits("RotateLeftCarry", o, Nil), 2)
      [] b1 \in 8..15 -> DecodeOk(Bits("RotateRightCarry", o, Nil), 2)
      [] b1 \in 16..23 -> DecodeOk(Bits("RotateLeft", o, Nil), 2)
      [] b1 \in 24..31 -> DecodeOk(Bits("RotateRight", o, Nil), 2)
      [] b1 \in 32..39 -> DecodeOk(Bits("ShiftLeftArithmetic", o, Nil), 2)
      [] b1 \in 40..47 -> DecodeOk(Bits("ShiftRightArithmetic", o, Nil), 2)
      [] b1 \in 48..55 -> DecodeOk(Bits("Swap", o, Nil), 2)
      [] b1 \in 56..63 -> DecodeOk(Bits("ShiftRightLogical", o, Nil), 2)
      [] b1 \in 64..127 -> DecodeOk(Bits("GetBit", get_bits_bit(b1), o), 2)
      [] b1 \in 128..191 -> DecodeOk(Bits("ResetBit", get_bits_bit(b1), o), 2)
      [] b1 \in 192..255 -> DecodeOk(Bits("SetBit", get_bits_bit(b1), o), 2)

\* Instruction::decode(bytes): b0, b1, b2 are bytes[0], bytes[1], bytes[2].
decode(b0, b1, b2) ==
    LET imm16 == hi_lo(b2, b1) IN
    CASE b0 = 0 -> DecodeOk(Plain("Nop"), 1)
      [] b0 = 251 -> DecodeOk(Plain("EnableInterrupts"), 1)
      [] b0 = 243 -> DecodeOk(Plain("DisableInterrupts"), 1)
      [] b0 = 16 -> IF b1 = 0 THEN DecodeOk(Plain("Stop"), 2) ELSE DecodeErr
      [] b0 = 118 -> DecodeOk(Plain("Halt"), 1)
      [] b0 = 55 -> DecodeOk(Plain("SetCarry"), 1)
      [] b0 = 63 -> DecodeOk(Plain("ClearCarry"), 1)
      [] b0 \in {4, 20, 36, 52, 12, 28, 44, 60} ->
            DecodeOk(Arith("Increment", OperandFromBits(b0, 3), Nil), 1)
      [] b0 \in {5, 21, 37, 53, 13, 29, 45, 61} ->
            DecodeOk(Arith("Decrement", OperandFromBits(b0, 3), Nil), 1)
      [] b0 = 8 -> DecodeOk(Load("LoadMemoryFromSP", imm16, Nil), 3)
      [] b0 = 11 -> DecodeOk(Arith("DecrementRegister16", "BC", Nil), 1)
      [] b0 = 27 -> DecodeOk(Arith("DecrementRegister16", "DE", Nil), 1)
      [] b0 = 43 -> DecodeOk(Arith("DecrementRegister16", "HL", Nil), 1)
      [] b0 = 59 -> DecodeOk(Arith("DecrementRegister16", "SP", Nil), 1)
      [] b0 = 3 -> DecodeOk(Arith("IncrementRegister16", "BC", Nil), 1)
      [] b0 = 19 -> DecodeOk(Arith("IncrementRegister16", "DE", Nil), 1)
      [] b0 = 35 -> DecodeOk(Arith("IncrementRegister16", "HL", Nil), 1)
      [] b0 = 51 -> DecodeOk(Arith("IncrementRegister16", "SP", Nil), 1)
      [] b0 = 232 -> DecodeOk(Arith("AddSP", AsI8(b1), Nil), 2)
      [] b0 = 9 -> DecodeOk(Arith("AddRegisterRegister16", "HL", "BC"), 1)
      [] b0 = 25 -> DecodeOk(Arith("AddRegisterRegister16", "HL", "DE"), 1)
      [] b0 = 41 -> DecodeOk(Arith("AddRegisterRegister16", "HL", "HL"), 1)
      [] b0 = 57 -> DecodeOk(Arith("AddRegisterRegister16", "HL", "SP"), 1)
      [] b0 = 233 -> DecodeOk(Control("JumpIndirect", Nil, Nil), 1)
      [] b0 = 195 -> DecodeOk(Control("Jump", imm16, Nil), 3)
      [] b0 \in {194, 210, 202, 218} ->
            DecodeOk(Control("JumpConditional", imm16, ConditionCodeFromBits(b0)), 3)
      [] b0 = 199 -> DecodeOk(Control("Reset", 0, Nil), 1)
      [] b0 = 215 -> DecodeOk(Control("Reset", 16, Nil), 1)
      [] b0 = 231 -> DecodeOk(Control("Reset", 32, Nil), 1)
      [] b0 = 247 -> DecodeOk(Control("Reset", 48, Nil), 1)
      [] b0 = 207 -> DecodeOk(Control("Reset", 8, Nil), 1)
      [] b0 = 223 -> DecodeOk(Control("Reset", 24, Nil), 1)
      [] b0 = 239 -> DecodeOk(Control("Reset", 40, Nil), 1)
      [] b0 = 255 -> DecodeOk(Control("Reset", 56, Nil), 1)
      [] b0 = 205 -> DecodeOk(Control("Call", imm16, Nil), 3)
      [] b0 \in {196, 212, 204, 220} ->
            DecodeOk(Control("CallConditional", imm16, ConditionCodeFromBits(b0)), 3)
      [] b0 = 240 ->
            DecodeOk(Load("Load", Register("A"), IndirectAddress(AddrAdd(65280, b1))), 2)
      [] b0 = 224 ->
            DecodeOk(Load("Load", IndirectAddress(AddrAdd(65280, b1)), Register("A")), 2)
      [] b0 = 1 -> DecodeOk(Load("LoadRegisterImmediate16", "BC", imm16), 3)
      [] b0 = 17 -> DecodeOk(Load("LoadRegisterImmediate16", "DE", imm16), 3)
      [] b0 = 33 -> DecodeOk(Load("LoadRegisterImmediate16", "HL", imm16), 3)
      [] b0 = 49 -> DecodeOk(Load("LoadRegisterImmediate16", "SP", imm16), 3)
      [] b0 = 47 -> DecodeOk(Bits("Complement", Nil, Nil), 1)
      [] b0 = 39 -> DecodeOk(Arith("DecimalAdjustAccumulator", Nil, Nil), 1)
      [] b0 = 234 -> DecodeOk(Load("LoadMemoryFromA", imm16, Nil), 3)
      [] b0 = 250 -> DecodeOk(Load("LoadAFromMemory", imm16, Nil), 3)
      [] b0 = 226 -> DecodeOk(Load("LoadIndirectHiFromA", Nil, Nil), 1)
      [] b0 = 242 -> DecodeOk(Load("LoadAFromIndirectHi", Nil, Nil), 1)
      [] b0 = 248 -> DecodeOk(Load("LoadHLFromSP", AsI8(b1), Nil), 2)
      [] b0 = 249 -> DecodeOk(Load("LoadSPFromHL", Nil, Nil), 1)
      [] b0 = 2 -> DecodeOk(Load("LoadIndirectRegisterFromA", "BC", Nil), 1)
      [] b0 = 18 -> DecodeOk(Load("LoadIndirectRegisterFromA", "DE", Nil), 1)
      [] b0 = 10 -> DecodeOk(Load("LoadAFromIndirectRegister", "BC", Nil), 1)
      [] b0 = 26 -> DecodeOk(Load("LoadAFromIndirectRegister", "DE", Nil), 1)
      [] b0 \in {6, 22, 38, 54, 14, 30, 46, 62} ->
            DecodeOk(Load("Load", OperandFromBits(b0, 3), Immediate(b1)), 2)
      [] b0 \in (64..117) \cup (119..127) ->
            DecodeOk(Load("Load", OperandFromBits(b0, 3), OperandFromBits(b0, 0)), 1)
      [] b0 = 34 -> DecodeOk(Load("LoadIndirectFromA", 1, Nil), 1)
      [] b0 = 50 -> DecodeOk(Load("LoadIndirectFromA", -1, Nil), 1)
      [] b0 = 42 -> DecodeOk(Load("LoadAFromIndirect", 1, Nil), 1)
      [] b0 = 58 -> DecodeOk(Load("LoadAFromIndirect", -1, Nil), 1)
      [] b0 = 197 -> DecodeOk(Load("Push", "BC", Nil), 1)
      [] b0 = 213 -> DecodeOk(Load("Push", "DE", Nil), 1)
      [] b0 = 229 -> DecodeOk(Load("Push", "HL", Nil), 1)
      [] b0 = 245 -> DecodeOk(Load("Push", "AF", Nil), 1)
      [] b0 = 193 -> DecodeOk(Load("Pop", "BC", Nil), 1)
      [] b0 = 209 -> DecodeOk(Load("Pop", "DE", Nil), 1)
      [] b0 = 225 -> DecodeOk(Load("Pop", "HL", Nil), 1)
      [] b0 = 241 -> DecodeOk(Load("Pop", "AF", Nil), 1)
      [] b0 = 254 -> DecodeOk(Inst("Compare", Nil, Immediate(b1), Nil), 2)
      [] b0 \in 184..191 -> DecodeOk(Inst("Compare", Nil, OperandFromBits(b0, 0), Nil), 1)
      [] b0 \in {32, 48, 40, 56} ->
            DecodeOk(Control("JumpRelativeConditional", AsI8(b1), ConditionCodeFromBits(b0)), 2)
      [] b0 = 24 -> DecodeOk(Control("JumpRelative", AsI8(b1), Nil), 2)
      [] b0 \in 128..135 -> DecodeOk(Arith("Add", OperandFromBits(b0, 0), Nil), 1)
      [] b0 = 198 -> DecodeOk(Arith("Add", Immediate(b1), Nil), 2)
      [] b0 \in 136..143 -> DecodeOk(Arith("AddWithCarry", OperandFromBits(b0, 0), Nil), 1)
      [] b0 = 206 -> DecodeOk(Arith("AddWithCarry", Immediate(b1), Nil), 2)
      [] b0 \in 144..151 -> DecodeOk(Arith("Subtract", OperandFromBits(b0, 0), Nil), 1)
      [] b0 = 214 -> DecodeOk(Arith("Subtract", Immediate(b1), Nil), 2)
      [] b0 \in 152..159 ->
            DecodeOk(Arith("SubtractWithCarry", OperandFromBits(b0, 0), Nil), 1)
      [] b0 = 222 -> DecodeOk(Arith("SubtractWithCarry", Immediate(b1), Nil), 2)
      [] b0 = 230 -> DecodeOk(Logic("AndImmediate", b1), 2)
      [] b0 = 166 -> DecodeOk(Logic("AndIndirect", Nil), 1)
      [] b0 = 160 -> DecodeOk(Logic("AndRegister", "B"), 1)
      [] b0 = 161 -> DecodeOk(Logic("AndRegister", "C"), 1)
      [] b0 = 162 -> DecodeOk(Logic("AndRegister", "D"), 1)
      [] b0 = 163 -> DecodeOk(Logic("AndRegister", "E"), 1)
      [] b0 = 164 -> DecodeOk(Logic("AndRegister", "H"), 1)
      [] b0 = 165 -> DecodeOk(Logic("AndRegister", "L"), 1)
      [] b0 = 167 -> DecodeOk(Logic("AndRegister", "A"), 1)
      [] b0 = 246 -> DecodeOk(Logic("OrImmediate", b1), 2)
      [] b0 = 182 -> DecodeOk(Logic("OrIndirect", Nil), 1)
      [] b0 = 176 -> DecodeOk(Logic("OrRegister", "B"), 1)
      [] b0 = 177 -> DecodeOk(Logic("OrRegister", "C"), 1)
      [] b0 = 178 -> DecodeOk(Logic("OrRegister", "D"), 1)
      [] b0 = 179 -> DecodeOk(Logic("OrRegister", "E"), 1)
      [] b0 = 180 -> DecodeOk(Logic("OrRegister", "H"), 1)
      [] b0 = 181 -> DecodeOk(Logic("OrRegister", "L"), 1)
      [] b0 = 183 -> DecodeOk(Logic("OrRegister", "A"), 1)
      [] b0 = 238 -> DecodeOk(Logic("XorImmediate", b1), 2)
      [] b0 = 174 -> DecodeOk(Logic("XorIndirect", Nil), 1)
      [] b0 = 168 -> DecodeOk(Logic("XorRegister", "B"), 1)
      [] b0 = 169 -> DecodeOk(Logic("XorRegister", "C"), 1)
      [] b0 = 170 -> DecodeOk(Logic("XorRegister", "D"), 1)
      [] b0 = 171 -> DecodeOk(Logic("XorRegister", "E"), 1)
      [] b0 = 172 -> DecodeOk(Logic("XorRegister", "H"), 1)
      [] b0 = 173 -> DecodeOk(Logic("XorRegister", "L"), 1)
      [] b0 = 175 -> DecodeOk(Logic("XorRegister", "A"), 1)
      [] b0 = 201 -> DecodeOk(Control("Return", Nil, Nil), 1)
      [] b0 = 217 -> DecodeOk(Control("InterruptReturn", Nil, Nil), 1)
      [] b0 \in {192, 208, 200, 216} ->
            DecodeOk(Control("ReturnConditional", ConditionCodeFromBits(b0), Nil), 1)
      [] b0 = 23 -> DecodeOk(Bits("RotateLeftAccumulator", Nil, Nil), 1)
      [] b0 = 31 -> DecodeOk(Bits("RotateRightAccumulator", Nil, Nil), 1)
      [] b0 = 7 -> DecodeOk(Bits("RotateLeftCarryAccumulator", Nil, Nil), 1)
      [] b0 = 15 -> DecodeOk(Bits("RotateRightCarryAccumulator", Nil, Nil), 1)
      [] b0 = 203 -> DecodeCB(b1)
      [] b0 \in {211, 219, 221, 227, 228, 235, 236, 237, 244, 252, 253} -> DecodeErr

(***************************************************************************)
(* Cartridges.  Each is a short program at the entry point 0x0100; the     *)
(* rest of the ROM is filled with 0x00 (Nop) except for the handlers at    *)
(* the interrupt vectors.                                                  *)
(***************************************************************************)
CartCode == <<
    \* 1: EI; HALT; NOP; DI; HALT
    <<251, 118, 0, 243, 118>>,
    \* 2: HALT; PUSH DE; POP DE; SCF; HALT
    <<118, 213, 209, 55, 118>>,
    \* 3: PUSH BC; POP AF; PUSH AF
    <<197, 241, 245>>,
    \* 4: CALL 0x0104; (0xD3); RET at 0x0104
    <<205, 4, 1, 211, 201>>,
    \* 5: LD SP,0x0100; EI; HALT; RST 0x08
    <<49, 0, 1, 251, 118, 207>>,
    \* 6: POP AF; JR NZ,+1; (0xD3); CALL NC,0x0040
    <<241, 32, 1, 211, 212, 64, 0>>,
    \* 7: JP (HL)
    <<233>>,
    \* 8: JR Z,+1; (0xD3); JP C,0x0108; (0xD3); (0xD3); RET Z at 0x0108
    <<40, 1, 211, 218, 8, 1, 211, 211, 200>>,
    \* 9: JR NZ,+1; JP NC,0x0100; RET NC; CALL NZ,0x0100
    <<32, 1, 210, 0, 1, 208, 196, 0, 1>>,
    \* 10: RST 0x08
    <<207>>,
    \* 11: JP 0x8000
    <<195, 0, 128>>,
    \* 12: NOP; JR -3
    <<0, 24, 253>>,
    \* 13: NOP; EI; NOP; NOP
    <<0, 251, 0, 0>>,
    \* 14: LD SP,0x8000; LD HL,0x8000; POP AF; ADD A,(HL); RET; LD (HL+),A
    <<49, 0, 128, 33, 0, 128, 241, 134, 201, 34>>,
    \* 15: JP 0x7FFF
    <<195, 255, 127>>,
    \* 16: LD HL,0xFFFF; LD (HL-),A; JP (HL)
    <<33, 255, 255, 50, 233>>
>>
NumCarts == Len(CartCode)

\* The handlers: RETI at 0x0040, RET at 0x0048, EI at 0x0050.
HandlerByte(a) ==
    CASE a = 64 -> 217
      [] a = 72 -> 201
      [] a = 80 -> 251
      [] OTHER -> 0

\* Cart: the byte of cartridge k at ROM address a.
CartByte(k, a) ==
    IF a >= InitialPC /\ a < InitialPC + Len(CartCode[k])
    THEN CartCode[k][a - InitialPC + 1]
    ELSE HandlerByte(a)

(***************************************************************************)
(* The memory bus (Mmu): ROM 0x0000..0x7FFF is readable and rejects        *)
(* writes; the stack RAM below 0xFFFF and the interrupt-enable register at *)
(* 0xFFFF are readable and writable; every other access is rejected.       *)
(***************************************************************************)
RomTop == 32767
IEAddr == 65535
RamBase == InitialSP - 2 * StackWords
RamAddrs == RamBase..(IEAddr - 1)

ReadOk(v) == [ok |-> TRUE, v |-> v]
ReadErr == [ok |-> FALSE, v |-> 0]
Ok(c) == [ok |-> TRUE, c |-> c]
Err(c) == [ok |-> FALSE, c |-> c]

\* MemDevice::read for Mmu.
mmu_read(c, a) ==
    IF a <= RomTop THEN ReadOk(CartByte(c.cart, a))
    ELSE IF a \in RamAddrs THEN ReadOk(c.ram[a])
    ELSE IF a = IEAddr THEN ReadOk(c.interrupt_enable)
    ELSE ReadErr

\* MemDevice::write for Mmu.
mmu_write(c, a, v) ==
    IF a \in RamAddrs THEN Ok([c EXCEPT !.ram[a] = v])
    ELSE IF a = IEAddr THEN Ok([c EXCEPT !.interrupt_enable = v])
    ELSE Err(c)

\* let x = v; K(x): v is evaluated once.
Let(v, K(_)) == CHOOSE y \in {K(x) : x \in {v}} : TRUE
\* try!(r) on a Result that carries the Cpu: go on with K, or return the error.
Try(r, K(_)) == Let(r, LAMBDA x : IF x.ok THEN K(x.c) ELSE x)
\* try!(r) on a read: go on with the value read, or return the error.
TryRead(r, c, K(_)) == Let(r, LAMBDA x : IF x.ok THEN K(x.v) ELSE Err(c))

\* MemDevice::read16: little-endian, low byte first.
mmu_read16(c, a) ==
    IF mmu_read(c, a).ok /\ mmu_read(c, AddrAdd(a, 1)).ok
    THEN ReadOk(hi_lo(mmu_read(c, AddrAdd(a, 1)).v, mmu_read(c, a).v))
    ELSE ReadErr

\* MemDevice::write16: little-endian, low byte first.
mmu_write16(c, a, v) ==
    Try(mmu_write(c, a, lo(v)), LAMBDA d : mmu_write(d, AddrAdd(a, 1), hi(v)))

(***************************************************************************)
(* Interrupt (cpu/interrupt.rs).                                           *)
(***************************************************************************)
InterruptBit(int) ==
    CASE int = "VBlank" -> 0
      [] int = "LCDStat" -> 1
      [] int = "Timer" -> 2
      [] int = "Serial" -> 3
      [] int = "Joypad" -> 4

is_enabled(int, ie) == Bit(ie, InterruptBit(int)) = 1

table_address(int) ==
    CASE int = "VBlank" -> 64
      [] int = "LCDStat" -> 72
      [] int = "Timer" -> 80
      [] int = "Serial" -> 88
      [] int = "Joypad" -> 96

(***************************************************************************)
(* Cpu (src/emu/cpu/mod.rs).  The operators work on a record c of the      *)
(* Cpu's fields and return [ok, c]: the Result and the Cpu as the call     *)
(* left it.                                                                *)
(***************************************************************************)
flags(c) == c.registers["F"]

write_r16(c, r, v) ==
    CASE r = "SP" -> [c EXCEPT !.sp = v]
      [] r = "PC" -> [c EXCEPT !.pc = v]
      [] r = "AF" -> [c EXCEPT !.registers["A"] = hi(v), !.registers["F"] = lo(v)]
      [] r = "BC" -> [c EXCEPT !.registers["B"] = hi(v), !.registers["C"] = lo(v)]
      [] r = "DE" -> [c EXCEPT !.registers["D"] = hi(v), !.registers["E"] = lo(v)]
      [] r = "HL" -> [c EXCEPT !.registers["H"] = hi(v), !.registers["L"] = lo(v)]

read_r16(c, r) ==
    CASE r = "SP" -> c.sp
      [] r = "PC" -> c.pc
      [] r = "AF" -> hi_lo(c.registers["A"], c.registers["F"])
      [] r = "BC" -> hi_lo(c.registers["B"], c.registers["C"])
      [] r = "DE" -> hi_lo(c.registers["D"], c.registers["E"])
      [] r = "HL" -> hi_lo(c.registers["H"], c.registers["L"])

\* push16 that moves SP whether or not the write went through.
push16_sp_moved(c, v) ==
    Let(mmu_write16(c, AddrAdd(c.sp, -2), v),
        LAMBDA x : [ok |-> x.ok, c |-> [x.c EXCEPT !.sp = AddrAdd(c.sp, -2)]])

push16(c, v) ==
    Try(mmu_write16(c, AddrAdd(c.sp, -2), v),
        LAMBDA d : Ok([d EXCEPT !.sp = AddrAdd(c.sp, -2)]))

\* pop16 without its move of SP.
pop16_sp_kept(c) ==
    [ok |-> mmu_read16(c, c.sp).ok, v |-> mmu_read16(c, c.sp).v, c |-> c]

\* pop16 returns [ok, v, c]: v the popped word.
pop16(c) ==
    Let(mmu_read16(c, c.sp),
        LAMBDA r : [ok |-> r.ok, v |-> r.v,
                    c |-> IF r.ok THEN [c EXCEPT !.sp = AddrAdd(c.sp, 2)] ELSE c])

read_indirect(c, r) == mmu_read(c, read_r16(c, r))
write_indirect(c, r, v) == mmu_write(c, read_r16(c, r), v)

read_operand(c, o) ==
    CASE o.k = "Immediate" -> ReadOk(o.v)
      [] o.k = "Register" -> ReadOk(c.registers[o.v])
      [] o.k = "IndirectRegister" -> read_indirect(c, o.v)
      [] o.k = "IndirectAddress" -> mmu_read(c, o.v)

\* The arm of write_operand that panics.
write_operand_panics(o) == o.k = "Immediate"

\* The operands execute hands to write_operand for the instruction i: the
\* destination of Load, and the operand of INC, DEC, the shifts, the rotates,
\* SWAP, RES and SET.
WrittenOperands(i) ==
    CASE i.t = "Load" /\ i.op = "Load" -> {i.x}
      [] i.t = "Arith" /\ i.op \in {"Increment", "Decrement"} -> {i.x}
      [] i.t = "Bits" /\ i.op \in {"Swap", "ShiftLeftArithmetic", "ShiftRightArithmetic",
                                  "ShiftRightLogical", "RotateLeft", "RotateRight",
                                  "RotateLeftCarry", "RotateRightCarry"} -> {i.x}
      [] i.t = "Bits" /\ i.op \in {"ResetBit", "SetBit"} -> {i.y}
      [] OTHER -> {}

\* A write to an Immediate panics: no arm.
write_operand(c, o, v) ==
    CASE o.k = "Register" -> Ok([c EXCEPT !.registers[o.v] = v])
      [] o.k = "IndirectAddress" -> mmu_write(c, o.v, v)
      [] o.k = "IndirectRegister" -> write_indirect(c, o.v, v)

\* The condition of a conditional jump, call or return on the flag word.
ConditionHolds(cc, f) ==
    CASE cc = "NZ" -> ~get_zero(f)
      [] cc = "Z" -> get_zero(f)
      [] cc = "NC" -> ~get_carry(f)
      [] cc = "C" -> get_carry(f)

\* Ret without its move of SP.
ReturnFromStack_sp_kept(c) ==
    TryRead(mmu_read16(c, c.sp), c, LAMBDA v : Ok([c EXCEPT !.pc = v]))

\* Ret: self.pc = read16(self.sp); self.sp += 2.
ReturnFromStack(c) ==
    TryRead(mmu_read16(c, c.sp), c,
            LAMBDA v : Ok([c EXCEPT !.pc = v, !.sp = AddrAdd(c.sp, 2)]))

\* A call that pushes the return address and does not jump.
CallTo_no_jump(c, a) == push16(c, c.pc)

\* CallI / Rst: push16(pc); pc = a.
CallTo(c, a) == Try(push16(c, c.pc), LAMBDA d : Ok([d EXCEPT !.pc = a]))

execute_control(c, i) ==
    CASE i.op = "JumpRelativeConditional" ->
            IF ConditionHolds(i.y, flags(c))
            THEN Ok([c EXCEPT !.pc = AddrAdd(c.pc, i.x)]) ELSE Ok(c)
      [] i.op = "JumpRelative" -> Ok([c EXCEPT !.pc = AddrAdd(c.pc, i.x)])
      [] i.op = "Return" -> ReturnFromStack(c)
      [] i.op = "InterruptReturn" ->
            Try(ReturnFromStack(c),
                LAMBDA d : Ok([d EXCEPT !.interrupt_master_enable = TRUE]))
      [] i.op = "ReturnConditional" ->
            IF ConditionHolds(i.x, flags(c)) THEN ReturnFromStack(c) ELSE Ok(c)
      [] i.op = "JumpIndirect" -> Ok([c EXCEPT !.pc = read_r16(c, "HL")])
      [] i.op = "Jump" -> Ok([c EXCEPT !.pc = i.x])
      [] i.op = "JumpConditional" ->
            IF ConditionHolds(i.y, flags(c)) THEN Ok([c EXCEPT !.pc = i.x]) ELSE Ok(c)
      [] i.op \in {"Call", "Reset"} -> CallTo(c, i.x)
      [] i.op = "CallConditional" ->
            IF ConditionHolds(i.y, flags(c)) THEN CallTo(c, i.x) ELSE Ok(c)

SetA(c, v) == [c EXCEPT !.registers["A"] = v]

\* LD (HL+),A and LD (HL-),A with HL moved before the write is tried.
LoadIndirectFromA_hl_first(c, i) ==
    Let(mmu_write(c, read_r16(c, "HL"), c.registers["A"]),
        LAMBDA w : [ok |-> w.ok,
                    c |-> write_r16(w.c, "HL", AddrAdd(read_r16(c, "HL"), i.x))])

\* LdNA(d): the write through HL, then HL moved by d.
LoadIndirectFromA(c, i) ==
    Try(mmu_write(c, read_r16(c, "HL"), c.registers["A"]),
        LAMBDA d : Ok(write_r16(d, "HL", AddrAdd(read_r16(c, "HL"), i.x))))

execute_load(c, i) ==
    CASE i.op = "Load" ->
            TryRead(read_operand(c, i.y), c, LAMBDA v : write_operand(c, i.x, v))
      [] i.op = "LoadIndirectFromA" -> LoadIndirectFromA(c, i)
      [] i.op = "LoadAFromIndirect" ->
            TryRead(mmu_read(c, read_r16(c, "HL")), c,
                    LAMBDA v : Ok(write_r16(SetA(c, v), "HL",
                                            AddrAdd(read_r16(c, "HL"), i.x))))
      [] i.op = "LoadIndirectHiFromA" ->
            mmu_write(c, c.registers["C"] + 65280, c.registers["A"])
      [] i.op = "LoadAFromIndirectHi" ->
            TryRead(mmu_read(c, c.registers["C"] + 65280), c, LAMBDA v : Ok(SetA(c, v)))
      [] i.op = "LoadSPFromHL" -> Ok(write_r16(c, "SP", read_r16(c, "HL")))
      [] i.op = "LoadIndirectRegisterFromA" -> write_indirect(c, i.x, c.registers["A"])
      [] i.op = "LoadAFromIndirectRegister" ->
            TryRead(read_indirect(c, i.x), c, LAMBDA v : Ok(SetA(c, v)))
      [] i.op = "LoadRegisterImmediate16" -> Ok(write_r16(c, i.x, i.y))
      [] i.op = "LoadMemoryFromA" -> mmu_write(c, i.x, c.registers["A"])
      [] i.op = "LoadAFromMemory" ->
            TryRead(mmu_read(c, i.x), c, LAMBDA v : Ok(SetA(c, v)))
      [] i.op = "Pop" ->
            Let(pop16(c), LAMBDA p : IF p.ok THEN Ok(write_r16(p.c, i.x, p.v)) ELSE Err(c))
      [] i.op = "Push" -> push16(c, read_r16(c, i.x))

(***************************************************************************)
(* Cycle counts.  Instruction::cycles gives the standalone forms; the      *)
(* families' counts follow the cost table of the specification.            *)
(***************************************************************************)
control_cycles(i, branch_taken) ==
    CASE i.op = "JumpRelative" -> 12
      [] i.op = "JumpRelativeConditional" -> IF branch_taken THEN 12 ELSE 8
      [] i.op = "Return" -> 4
      [] i.op = "InterruptReturn" -> 16
      [] i.op = "ReturnConditional" -> IF branch_taken THEN 12 ELSE 8
      [] i.op = "JumpIndirect" -> 4
      [] i.op \in {"Jump", "JumpConditional"} -> 12
      [] i.op \in {"Call", "Reset"} -> 24
      [] i.op = "CallConditional" -> IF branch_taken THEN 24 ELSE 16

load_cycles(i) ==
    CASE i.op = "Load" ->
            IF "IndirectAddress" \in {i.x.k, i.y.k} THEN 12
            ELSE IF "IndirectRegister" \in {i.x.k, i.y.k} \/ i.y.k = "Immediate" THEN 8
            ELSE 4
      [] i.op \in {"LoadIndirectFromA", "LoadAFromIndirect", "LoadIndirectHiFromA",
                   "LoadAFromIndirectHi", "LoadSPFromHL", "LoadIndirectRegisterFromA",
                   "LoadAFromIndirectRegister"} -> 8
      [] i.op \in {"LoadRegisterImmediate16", "Pop", "LoadHLFromSP"} -> 12
      [] i.op \in {"Push", "LoadMemoryFromA", "LoadAFromMemory",
                   "LoadMemoryFromSP"} -> 16

\* Arith::cycles for the 8-bit ALU operations on the accumulator.
arith_cycles(i) ==
    CASE i.op \in {"Add", "AddWithCarry", "Subtract", "SubtractWithCarry",
                   "Increment", "Decrement"} ->
            IF i.x.k = "Register" THEN 4 ELSE 8
      [] i.op = "DecimalAdjustAccumulator" -> 4
      [] i.op \in {"IncrementRegister16", "DecrementRegister16",
                   "AddRegisterRegister16"} -> 8
      [] i.op = "AddSP" -> 16

\* Bits::cycles: the accumulator forms, and the 0xCB forms on their operand.
bits_cycles(i) ==
    CASE i.op \in {"Complement", "RotateLeftAccumulator", "RotateRightAccumulator",
                   "RotateLeftCarryAccumulator", "RotateRightCarryAccumulator"} -> 4
      [] i.op \in {"GetBit", "ResetBit", "SetBit"} ->
            IF i.y.k = "Register" THEN 12 ELSE 16
      [] i.op \in {"RotateLeftCarry", "RotateRightCarry", "RotateLeft",
                   "RotateRight", "ShiftLeftArithmetic", "ShiftRightArithmetic",
                   "Swap", "ShiftRightLogical"} ->
            IF i.x.k = "Register" THEN 12 ELSE 16

\* Logic::cycles.
logic_cycles(i) ==
    CASE i.op \in {"AndRegister", "OrRegister", "XorRegister"} -> 4
      [] i.op \in {"AndImmediate", "OrImmediate", "XorImmediate",
                   "AndIndirect", "OrIndirect", "XorIndirect"} -> 8

\* What cycles yields where the source has unimplemented!(): no cycle count.
Unimplemented == -1

\* Instruction::cycles without its arm for Compare of an indirect register.
cycles_compare_hl_missing(i, branch_taken) ==
    CASE i.t \in {"Nop", "EnableInterrupts", "DisableInterrupts", "Halt", "Stop",
                  "SetCarry", "ClearCarry"} -> 4
      [] i.t = "Compare" ->
            CASE i.x.k = "Immediate" -> 8
              [] i.x.k = "Register" -> 4
              [] OTHER -> Unimplemented
      [] i.t = "Arith" -> arith_cycles(i)
      [] i.t = "Bits" -> bits_cycles(i)
      [] i.t = "Load" -> load_cycles(i)
      [] i.t = "Control" -> control_cycles(i, branch_taken)
      [] i.t = "Logic" -> logic_cycles(i)

cycles(i, branch_taken) ==
    CASE i.t \in {"Nop", "EnableInterrupts", "DisableInterrupts", "Halt", "Stop",
                  "SetCarry", "ClearCarry"} -> 4
      [] i.t = "Compare" ->
            CASE i.x.k \in {"Immediate", "IndirectRegister"} -> 8
              [] i.x.k = "Register" -> 4
              [] OTHER -> Unimplemented
      [] i.t = "Arith" -> arith_cycles(i)
      [] i.t = "Bits" -> bits_cycles(i)
      [] i.t = "Load" -> load_cycles(i)
      [] i.t = "Control" -> control_cycles(i, branch_taken)
      [] i.t = "Logic" -> logic_cycles(i)

\* The result of an ALU operation stored without its flags.
StoreAF_flags_kept(c, r) == Ok([c EXCEPT !.registers["A"] = r.v])

\* self[Register8::A] = v; self[Register8::F] = flags.0.
StoreAF(c, r) == Ok([c EXCEPT !.registers["A"] = r.v, !.registers["F"] = r.f])

\* Cpu::execute_arith, the 8-bit operations on the accumulator: AddR, AddN and
\* AddI are Add on a Register, on (HL) and on an Immediate, and so on.
execute_arith(c, i) ==
    CASE i.op = "Add" ->
            TryRead(read_operand(c, i.x), c,
                    LAMBDA v1 : StoreAF(c, add(v1, c.registers["A"])))
      [] i.op = "AddWithCarry" ->
            TryRead(read_operand(c, i.x), c,
                    LAMBDA v1 : StoreAF(c, adc(v1, c.registers["A"], get_carry(flags(c)))))
      [] i.op = "Subtract" ->
            TryRead(read_operand(c, i.x), c,
                    LAMBDA v2 : StoreAF(c, sub(c.registers["A"], v2)))
      [] i.op = "SubtractWithCarry" ->
            TryRead(read_operand(c, i.x), c,
                    LAMBDA v1 : StoreAF(c, sbc(v1, c.registers["A"], get_carry(flags(c)))))

\* The Cp arm with the difference stored in A, as Sub does.
execute_compare_as_sub(c, i) ==
    TryRead(read_operand(c, i.x), c, LAMBDA v : StoreAF(c, sub(c.registers["A"], v)))

\* The Cp arm of Cpu::execute.
execute_compare(c, i) ==
    TryRead(read_operand(c, i.x), c,
            LAMBDA v : Ok([c EXCEPT !.registers["F"] = sub(c.registers["A"], v).f]))

\* The Scf arm with the zero flag cleared too.
execute_scf_zero_cleared(c) ==
    Ok([c EXCEPT !.registers["F"] =
          set_carry(set_halfcarry(set_subtract(flags(c) % 128, FALSE), FALSE), TRUE)])

\* The Scf arm of Cpu::execute.
execute_scf(c) ==
    Ok([c EXCEPT !.registers["F"] =
          set_carry(set_halfcarry(set_subtract(flags(c), FALSE), FALSE), TRUE)])

\* An Ei arm that takes effect only after the next instruction.
execute_ei_delayed(c) == Ok(c)

\* The Ei arm of Cpu::execute.
execute_ei(c) == Ok([c EXCEPT !.interrupt_master_enable = TRUE])

\* The match of Cpu::execute.
execute_match(c, i) ==
    CASE i.t = "Nop" -> Ok(c)
      [] i.t = "EnableInterrupts" -> execute_ei(c)
      [] i.t = "DisableInterrupts" -> Ok([c EXCEPT !.interrupt_master_enable = FALSE])
      [] i.t = "Halt" -> Ok([c EXCEPT !.halted = TRUE])
      [] i.t = "SetCarry" -> execute_scf(c)
      [] i.t = "Compare" -> execute_compare(c, i)
      [] i.t = "Arith" -> execute_arith(c, i)
      [] i.t = "Control" -> execute_control(c, i)
      [] i.t = "Load" -> execute_load(c, i)

\* execute with the charge made before the instruction runs.
execute_charge_first(c, i) ==
    Let(execute_match([c EXCEPT !.cycle = c.cycle + cycles(i, FALSE)], i),
        LAMBDA r : r)

\* Cpu::execute.  The charge at its end is i.cycles(): it is given no branch
\* outcome, so the count of a conditional instruction is its not-taken one.
execute(c, i) ==
    Try(execute_match(c, i),
        LAMBDA d : Ok([d EXCEPT !.cycle = d.cycle + cycles(i, FALSE)]))

\* What a call of handle_interrupt found on entry.
Snapshot(c) == [pc |-> c.pc, sp |-> c.sp, ime |-> c.interrupt_master_enable,
                halted |-> c.halted, ie |-> c.interrupt_enable,
                cycle |-> c.cycle, ram |-> c.ram]
NoSnapshot == [pc |-> 0, sp |-> 0, ime |-> FALSE, halted |-> FALSE, ie |-> 0,
               cycle |-> 0, ram |-> <<>>]

\* handle_interrupt with a dispatch that leaves IME set.
handle_interrupt_ime_kept(c, int) ==
    Try(IF c.interrupt_master_enable /\ is_enabled(int, c.interrupt_enable)
        THEN Try(push16(c, c.pc), LAMBDA d : Ok([d EXCEPT !.pc = table_address(int)]))
        ELSE Ok(c),
        LAMBDA d : Ok([d EXCEPT !.halted = FALSE]))

\* handle_interrupt that wakes a halted Cpu only when it dispatches.
handle_interrupt_wake_on_dispatch(c, int) ==
    IF c.interrupt_master_enable /\ is_enabled(int, c.interrupt_enable)
    THEN Try(push16(c, c.pc),
             LAMBDA d : Ok([d EXCEPT !.pc = table_address(int),
                                     !.interrupt_master_enable = FALSE,
                                     !.halted = FALSE]))
    ELSE Ok(c)

\* handle_interrupt that does not look at the interrupt-enable register.
handle_interrupt_ie_ignored(c, int) ==
    Try(IF c.interrupt_master_enable
        THEN Try(push16(c, c.pc),
                 LAMBDA d : Ok([d EXCEPT !.pc = table_address(int),
                                         !.interrupt_master_enable = FALSE]))
        ELSE Ok(c),
        LAMBDA d : Ok([d EXCEPT !.halted = FALSE]))

\* handle_interrupt that wakes a halted Cpu only for an interrupt whose bit of
\* the interrupt-enable register is set.
handle_interrupt_wake_if_enabled(c, int) ==
    Try(IF c.interrupt_master_enable /\ is_enabled(int, c.interrupt_enable)
        THEN Try(push16(c, c.pc),
                 LAMBDA d : Ok([d EXCEPT !.pc = table_address(int),
                                         !.interrupt_master_enable = FALSE]))
        ELSE Ok(c),
        LAMBDA d : Ok([d EXCEPT !.halted =
                          d.halted /\ ~is_enabled(int, c.interrupt_enable)]))

handle_interrupt(c, int) ==
    Try(IF c.interrupt_master_enable /\ is_enabled(int, c.interrupt_enable)
        THEN Try(push16(c, c.pc),
                 LAMBDA d : Ok([d EXCEPT !.pc = table_address(int),
                                         !.interrupt_master_enable = FALSE]))
        ELSE Ok(c),
        LAMBDA d : Ok([d EXCEPT !.halted = FALSE]))

\* drive_peripherals: int is what self.mmu.lcd.pump_cycle(self.cycle) returned.
drive_peripherals(c, int) ==
    IF int # NoInterrupt THEN handle_interrupt(c, int) ELSE Ok(c)

\* Cart::map_address_into_rom: the addresses of the model lie in bank 0.
map_address_into_rom(a) == a

\* The window decoded, or the error of a failed read.
FetchDecode(b0, b1, b2) ==
    IF b0.ok /\ b1.ok /\ b2.ok THEN decode(b0.v, b1.v, b2.v) ELSE DecodeErr

\* fetch_instruction that reads the opcode, and of the two bytes after it only
\* those the decoded instruction has.
fetch_instruction_by_length(c) ==
    IF ~mmu_read(c, c.pc).ok THEN DecodeErr
    ELSE Let(decode(mmu_read(c, c.pc).v, mmu_read(c, AddrAdd(c.pc, 1)).v,
                    mmu_read(c, AddrAdd(c.pc, 2)).v),
             LAMBDA d : IF \A k \in 1..2 :
                              k < d.len => mmu_read(c, AddrAdd(c.pc, k)).ok
                        THEN d ELSE DecodeErr)

\* fetch_instruction returns [ok, inst, len].
fetch_instruction(c) ==
    FetchDecode(mmu_read(c, c.pc), mmu_read(c, AddrAdd(c.pc, 1)),
                mmu_read(c, AddrAdd(c.pc, 2)))

\* The trace ring after run_cycle recorded one more fetch.
push_trace(ring, entry) ==
    Append(IF Len(ring) > TraceCap THEN Tail(ring) ELSE ring, entry)

\* What one step did, beside the Cpu it left: whether memory was fetched from,
\* the decoded instruction, whether execute returned Ok, whether the LCD was
\* pumped and what it returned, and the Cpu as handle_interrupt found it.
Info(fetched, inst, len, executed, pumped, int, pre) ==
    [fetched |-> fetched, inst |-> inst, len |-> len, executed |-> executed,
     pumped |-> pumped, int |-> int, pre |-> pre]
NoInfo == Info(FALSE, Plain("Nop"), 0, FALSE, FALSE, NoInterrupt, NoSnapshot)

\* run_cycle from its call of execute on: e is what execute returned.
run_executed(f, e, int) ==
    IF ~e.ok
    THEN [ok |-> FALSE, c |-> e.c,
          info |-> Info(TRUE, f.inst, f.len, FALSE, FALSE, NoInterrupt, NoSnapshot)]
    ELSE Let(drive_peripherals(e.c, int),
             LAMBDA d : [ok |-> d.ok, c |-> d.c,
                         info |-> Info(TRUE, f.inst, f.len, TRUE, TRUE, int,
                                       IF int # NoInterrupt THEN Snapshot(e.c)
                                       ELSE NoSnapshot)])

\* run_cycle from its fetch on: f is what fetch_instruction returned.
run_fetched(c, f, int) ==
    IF ~f.ok
    THEN [ok |-> FALSE, c |-> c,
          info |-> Info(TRUE, Plain("Nop"), 0, FALSE, FALSE, NoInterrupt, NoSnapshot)]
    ELSE Let(execute([c EXCEPT !.last_instructions =
                                   push_trace(c.last_instructions,
                                              <<map_address_into_rom(c.pc), f.inst>>),
                               !.pc = AddrAdd(c.pc, f.len)],
                     f.inst),
             LAMBDA e : run_executed(f, e, int))

\* run_cycle without its check of halted.
run_cycle_halt_unchecked(c, int) ==
    IF c.pc \in c.breakpoints
    THEN [ok |-> FALSE, c |-> [c EXCEPT !.breakpoints = c.breakpoints \ {c.pc}],
          info |-> NoInfo]
    ELSE Let(fetch_instruction(c), LAMBDA f : run_fetched(c, f, int))

\* run_cycle with a breakpoint that stays set when it fires.
run_cycle_breakpoint_kept(c, int) ==
    IF c.halted THEN [ok |-> TRUE, c |-> c, info |-> NoInfo]
    ELSE IF c.pc \in c.breakpoints
    THEN [ok |-> FALSE, c |-> c, info |-> NoInfo]
    ELSE Let(fetch_instruction(c), LAMBDA f : run_fetched(c, f, int))

\* run_cycle returns [ok, c, info]; int is what the pump returns if it is called.
run_cycle(c, int) ==
    IF c.halted THEN [ok |-> TRUE, c |-> c, info |-> NoInfo]
    ELSE IF c.pc \in c.breakpoints
    THEN [ok |-> FALSE, c |-> [c EXCEPT !.breakpoints = c.breakpoints \ {c.pc}],
          info |-> NoInfo]
    ELSE Let(fetch_instruction(c), LAMBDA f : run_fetched(c, f, int))

\* <<q, r>> with a * b = q * m + r and r < m, for a < m: the u64 product a * b
\* divided by m, computed bit by bit so that no step leaves 31 bits.
\* One bit more: p is <<q, r>> for the bits above, bit the next bit of b.
MulDivStep(a, bit, m, p) ==
    <<2 * p[1] + (2 * p[2] + a * bit) \div m, (2 * p[2] + a * bit) % m>>

RECURSIVE MulDivMod(_, _, _)
MulDivMod(a, b, m) ==
    IF b = 0 THEN <<0, 0>>
    ELSE MulDivStep(a, b % 2, m, MulDivMod(a, b \div 2, m))

duration_to_cycle_count(duration) ==
    duration.secs * CLOCK_RATE
        + MulDivMod(CLOCK_RATE, duration.nanos, NSEC_PER_SEC)[1]

min(a, b) == IF a < b THEN a ELSE b

\* A loop that goes on while debug_halted is set.
run_condition_cycles_only(cyc, stop, dh) == cyc < stop

\* A loop that stops one instruction short of the deadline.
run_condition_early(cyc, stop, dh) == cyc + 4 < stop /\ ~dh

\* The condition of run_for_duration's while loop.
run_condition(cyc, stop, dh) == cyc < stop /\ ~dh

\* A halted branch that always fast-forwards to the deadline.
coalesce_halt_to_deadline(c, stop, next_event, int) ==
    drive_peripherals([c EXCEPT !.cycle = stop], int)

\* The halted branch of run_for_duration's loop body: next_event is what
\* lcd.get_next_event_cycle() returns, int what the pump returns after it.
coalesce_halt(c, stop, next_event, int) ==
    drive_peripherals([c EXCEPT !.cycle = min(next_event, stop)], int)

(***************************************************************************)
(* The state machine.                                                      *)
(***************************************************************************)
\* The inputs: what the pump may return, the cycles the LCD may report as its
\* next event, the durations a caller asks for, the breakpoints a debugger sets
\* and the interrupt-enable register of the bus the Cpu is bound to.
PumpResults == {NoInterrupt} \cup Interrupts
FarEvent == MaxCycle + MaxEventCycle
EventCycles == {0, MaxEventCycle, FarEvent}
Durations == {[secs |-> 0, nanos |-> n] : n \in {0, 239, 2865}}
BreakAddrs == {InitialPC + 1}
SampleBytes == {0, 1, 127, 128, 255}
\* The accumulator, operand and flag values the executor is tried on.
AluBytes == {0, 1, 15, 16, 18, 47, 58, 60, 198, 255}
FlagBytes == {0, 16, 96, 240}
InitialIE == {5, 31}

\* The Cpu's fields as one record, and back.
Cpu == [registers |-> registers, pc |-> pc, sp |-> sp, cycle |-> cycle,
        interrupt_master_enable |-> interrupt_master_enable, halted |-> halted,
        last_instructions |-> last_instructions, breakpoints |-> breakpoints,
        ram |-> ram, interrupt_enable |-> interrupt_enable, cart |-> cart]

SetCpu(c) ==
    /\ registers' = c.registers
    /\ pc' = c.pc
    /\ sp' = c.sp
    /\ cycle' = c.cycle
    /\ interrupt_master_enable' = c.interrupt_master_enable
    /\ halted' = c.halted
    /\ last_instructions' = c.last_instructions
    /\ breakpoints' = c.breakpoints
    /\ ram' = c.ram
    /\ interrupt_enable' = c.interrupt_enable
    /\ cart' = c.cart

cpuVars == <<registers, pc, sp, cycle, interrupt_master_enable, halted,
             last_instructions, breakpoints, ram, interrupt_enable, cart>>

Event(kind, ok, info) == [kind |-> kind, ok |-> ok, info |-> info]

\* The stack of the model is StackWords deep: a step that may push n words is
\* taken only where these land in the stack RAM, or where the first of them
\* lands in ROM, which fails the write.
StackRoom(n) == sp <= RomTop + 2 \/ sp >= RamBase + 2 * n

\* The register file of the struct literal, before the eight assignments.
BootRegisters_zeroed == [r \in Register8 |-> 0]

\* The register file Cpu::new leaves: registers: [0; 8], then cpu[A] = 0x01 ...
\* cpu[L] = 0x4D.
BootRegisters ==
    [r \in Register8 |->
        CASE r = "A" -> 1 [] r = "F" -> 176 [] r = "B" -> 0 [] r = "C" -> 19
          [] r = "D" -> 0 [] r = "E" -> 216 [] r = "H" -> 1 [] r = "L" -> 77]

\* Cpu::new on a bus that holds one of the cartridges.
NewCpu ==
    /\ registers = BootRegisters
    /\ sp = InitialSP
    /\ pc = InitialPC
    /\ cycle = 0
    /\ interrupt_master_enable = FALSE
    /\ halted = FALSE
    /\ debug_halted = FALSE
    /\ last_instructions = <<>>
    /\ breakpoints = {}
    /\ ram = [a \in RamAddrs |-> 0]
    /\ interrupt_enable \in InitialIE
    /\ cart \in 1..NumCarts
    /\ rpc = "idle"
    /\ stop_at_cycle = 0
    /\ call = [entry |-> 0, duration |-> [secs |-> 0, nanos |-> 0]]
    /\ ev = Event("new", TRUE, NoInfo)
    /\ pending = {}

\* lcd::get_next_event_cycle on a scheduled LCD: the cycle of the next event
\* it has to fire, far ahead when it has none.
FarFuture == 4 * (MaxCycle + MaxEventCycle)
get_next_event_cycle(l) == IF l.events = <<>> THEN FarFuture ELSE Head(l.events).at

\* lcd::pump_cycle on a scheduled LCD: the LCD advances to cycle c and
\* returns the interrupt of an event that fires during the advance.
pump_cycle(l, c) ==
    IF l.events # <<>> /\ Head(l.events).at <= c
    THEN [int |-> Head(l.events).int, lcd |-> [l EXCEPT !.events = Tail(l.events)]]
    ELSE [int |-> NoInterrupt, lcd |-> l]

\* The LCD is not scheduled: it may report and return anything.
NoSchedule == [events |-> <<>>]
Unscheduled == lcd = NoSchedule /\ halted_at = 0

\* Context::running: Resume and Step insensitive, Pause sensitive.
context_running == [pause |-> TRUE, resume |-> FALSE, step |-> FALSE]

\* Context::halted: Resume and Step sensitive, Pause insensitive.
context_halted == [pause |-> FALSE, resume |-> TRUE, step |-> TRUE]

\* Where a thread stands: at is the place, n a count that goes with it.
At(at, n) == [at |-> at, n |-> n]

\* The host after load_debugger and CpalSink::new: the window shows a running
\* Cpu, both queues are empty and no thread holds the lock.
HostIdle ==
    /\ buttons = context_running
    /\ local_queue = <<>>
    /\ queue = <<>>
    /\ mutex = "none"
    /\ ppc = At("idle", 0)
    /\ cpc = At("idle", 0)
    /\ emitted = 0
    /\ pushed = <<>>
    /\ seen = 0

\* The decoder has not been called.
NotDecoded == [ok |-> FALSE, inst |-> Plain("NotDecoded"), len |-> 0]

\* The emulator starts: a new Cpu, and no window decoded apart from a fetch.
Init ==
    /\ NewCpu
    /\ bytes = <<0, 0, 0>>
    /\ decoded = NotDecoded
    /\ Unscheduled
    /\ HostIdle

\* run_for_duration is called: the deadline is computed.
RunForDuration(d) ==
    /\ rpc = "idle"
    /\ cycle <= MaxCycle
    /\ stop_at_cycle' = cycle + duration_to_cycle_count(d)
    /\ call' = [entry |-> cycle, duration |-> d]
    /\ rpc' = "while"
    /\ ev' = Event("run_for_duration", TRUE, NoInfo)
    /\ UNCHANGED <<cpuVars, debug_halted, pending, bytes, decoded>>
    /\ UNCHANGED <<lcdVars, hostVars>>

\* One pass of the loop body, first half: run_cycle and its error check.
LoopRunCycleOn(int) ==
    /\ rpc = "while"
    /\ run_condition(cycle, stop_at_cycle, debug_halted)
    /\ StackRoom(2)
    /\ \E r \in {run_cycle(Cpu, int)} :
        /\ SetCpu(r.c)
        /\ debug_halted' = IF ~r.ok THEN TRUE ELSE debug_halted
        /\ ev' = Event("loop_run_cycle", r.ok, r.info)
    /\ rpc' = "if_halted"
    /\ UNCHANGED <<stop_at_cycle, call, pending, bytes, decoded>>
    /\ UNCHANGED hostVars

\* The same on an LCD that may return any interrupt.
LoopRunCycle(int) == LoopRunCycleOn(int) /\ UNCHANGED lcdVars

\* Second half of the loop body: the halted branch.
LoopHaltedOn(next_event, int) ==
    /\ rpc = "if_halted"
    /\ StackRoom(1)
    /\ IF halted
       THEN \E r \in {coalesce_halt(Cpu, stop_at_cycle, next_event, int)} :
             /\ SetCpu(r.c)
             /\ debug_halted' = IF ~r.ok THEN TRUE ELSE debug_halted
             /\ ev' = Event("loop_halted", r.ok,
                            Info(FALSE, Plain("Nop"), 0, FALSE, TRUE, int,
                                 IF int # NoInterrupt
                                 THEN Snapshot([Cpu EXCEPT
                                        !.cycle = min(next_event, stop_at_cycle)])
                                 ELSE NoSnapshot))
       ELSE /\ next_event = FarEvent
            /\ int = NoInterrupt
            /\ ev' = Event("loop_not_halted", TRUE, NoInfo)
            /\ UNCHANGED <<cpuVars, debug_halted>>
    /\ rpc' = "while"
    /\ UNCHANGED <<stop_at_cycle, call, pending, bytes, decoded>>
    /\ UNCHANGED hostVars

\* The same on an LCD that may report any next event and return any interrupt.
LoopHalted(next_event, int) == LoopHaltedOn(next_event, int) /\ UNCHANGED lcdVars

\* The loop condition fails: run_for_duration returns.
Return ==
    /\ rpc = "while"
    /\ ~run_condition(cycle, stop_at_cycle, debug_halted)
    /\ rpc' = "idle"
    /\ ev' = Event("return", TRUE, NoInfo)
    /\ UNCHANGED <<cpuVars, debug_halted, stop_at_cycle, call, pending, bytes, decoded>>
    /\ UNCHANGED <<lcdVars, hostVars>>

\* The interrupts returned while IME was clear and not dispatched since, after
\* a step with the outcome r.
Unserved(p, r) ==
    IF ~r.info.pumped \/ r.info.int = NoInterrupt THEN p
    ELSE IF ~r.info.pre.ime THEN p \cup {r.info.int}
    ELSE IF r.ok /\ is_enabled(r.info.int, r.info.pre.ie) THEN p \ {r.info.int}
    ELSE p

\* One pass of main's loop while the cycle counter is not beyond last:
\* run_cycle called directly; on an error the debugger prompt runs.
RunCycleStep(int, last) ==
    /\ rpc = "idle"
    /\ cycle <= last
    /\ StackRoom(2)
    /\ \E r \in {run_cycle(Cpu, int)} :
        /\ SetCpu(r.c)
        /\ ev' = Event("main_run_cycle", r.ok, r.info)
        /\ pending' = Unserved(pending, r)
    /\ UNCHANGED <<debug_halted, rpc, stop_at_cycle, call, bytes, decoded>>
    /\ UNCHANGED <<lcdVars, hostVars>>

MainRunCycle(int) == RunCycleStep(int, MaxCycle)

\* main's loop on a bus whose pump returns no interrupt, for a longer time.
LongRunCycle == RunCycleStep(NoInterrupt, MaxTraceCycle)

\* The debugger releases the flag between two calls.
Resume ==
    /\ rpc = "idle"
    /\ debug_halted
    /\ debug_halted' = FALSE
    /\ ev' = Event("resume", TRUE, NoInfo)
    /\ UNCHANGED <<cpuVars, rpc, stop_at_cycle, call, pending, bytes, decoded>>
    /\ UNCHANGED <<lcdVars, hostVars>>

\* The debugger sets a breakpoint between two calls.
AddBreakpoint(a) ==
    /\ rpc = "idle"
    /\ a \notin breakpoints
    /\ Cardinality(breakpoints) < MaxBreakpoints
    /\ breakpoints' = breakpoints \cup {a}
    /\ ev' = Event("add_breakpoint", TRUE, NoInfo)
    /\ UNCHANGED <<registers, pc, sp, cycle, interrupt_master_enable, halted,
                   last_instructions, ram, interrupt_enable, cart, debug_halted,
                   rpc, stop_at_cycle, call, pending, bytes, decoded>>
    /\ UNCHANGED <<lcdVars, hostVars>>

\* The host's frame loop: run_for_duration, with the debugger between calls.
Next ==
    \/ \E d \in Durations : RunForDuration(d)
    \/ \E int \in PumpResults : LoopRunCycle(int)
    \/ \E e \in EventCycles, int \in PumpResults : LoopHalted(e, int)
    \/ Return
    \/ Resume
    \/ \E a \in BreakAddrs : AddBreakpoint(a)

Spec == Init /\ [][Next]_vars

\* main's loop: run_cycle after run_cycle, with the debugger prompt between.
MainNext ==
    \/ \E int \in PumpResults : MainRunCycle(int)
    \/ \E a \in BreakAddrs : AddBreakpoint(a)

MainSpec == Init /\ [][MainNext]_vars

\* main's loop running long enough to fill the trace ring.
TraceNext ==
    \/ LongRunCycle
    \/ \E a \in BreakAddrs : AddBreakpoint(a)

TraceSpec == Init /\ [][TraceNext]_vars

\* decode called with the third byte of the window in place of the second.
Decode_third_as_second ==
    /\ decoded.inst.t = "NotDecoded"
    /\ decoded' = decode(bytes[1], bytes[3], bytes[3])
    /\ UNCHANGED <<cpuVars, debug_halted, rpc, stop_at_cycle, call, ev, pending, bytes>>
    /\ UNCHANGED <<lcdVars, hostVars>>

\* decode called on the window that begins one byte later.
Decode_window_shifted ==
    /\ decoded.inst.t = "NotDecoded"
    /\ decoded' = decode(bytes[2], bytes[3], bytes[3])
    /\ UNCHANGED <<cpuVars, debug_halted, rpc, stop_at_cycle, call, ev, pending, bytes>>
    /\ UNCHANGED <<lcdVars, hostVars>>

\* Instruction::decode called on a window.
Decode ==
    /\ decoded.inst.t = "NotDecoded"
    /\ decoded' = decode(bytes[1], bytes[2], bytes[3])
    /\ UNCHANGED <<cpuVars, debug_halted, rpc, stop_at_cycle, call, ev, pending, bytes>>
    /\ UNCHANGED <<lcdVars, hostVars>>

\* The windows decode is tried on: every first byte with the sample second
\* and third bytes, and every second byte after 0x10 and 0xCB.
Windows ==
    {<<b0, b1, b2>> : b0 \in 0..(W8 - 1), b1 \in SampleBytes, b2 \in SampleBytes}
    \cup {<<b0, b1, b2>> : b0 \in {16, 203}, b1 \in 0..(W8 - 1), b2 \in SampleBytes}

DecodeInit ==
    /\ NewCpu
    /\ Unscheduled
    /\ HostIdle
    /\ cart = 1
    /\ interrupt_enable = 5
    /\ bytes \in Windows
    /\ decoded = NotDecoded

DecodeSpec == DecodeInit /\ [][Decode]_vars

\* The schedules of the LCD: one or two events, VBlank first, at cycles on and
\* off the 4-cycle grid of the instructions.
EventTimes == {6, 8, 12, 16, 20}
Schedules ==
    {<<[at |-> a, int |-> "VBlank"]>> : a \in EventTimes}
    \cup {<<[at |-> q[1], int |-> "VBlank"], [at |-> q[2], int |-> "Timer"]>> :
              q \in {x \in EventTimes \X EventTimes : x[1] < x[2]}}

\* A new Cpu on a cartridge that halts, with a scheduled LCD.
SchedInit ==
    /\ NewCpu
    /\ cart \in {1, 2}
    /\ bytes = <<0, 0, 0>>
    /\ decoded = NotDecoded
    /\ lcd \in {[events |-> e] : e \in Schedules}
    /\ halted_at = 0
    /\ HostIdle

\* The first half of the loop body on the scheduled LCD: the pump, if the
\* run_cycle reaches it, is called with the cycle counter execute left.
SchedLoopRunCycle ==
    \E int \in PumpResults :
        \E r \in {run_cycle(Cpu, int)} :
            /\ int = IF r.info.pumped THEN pump_cycle(lcd, r.c.cycle).int ELSE NoInterrupt
            /\ LoopRunCycleOn(int)
            /\ lcd' = IF r.info.pumped THEN pump_cycle(lcd, r.c.cycle).lcd ELSE lcd
            /\ halted_at' = IF r.c.halted /\ ~halted THEN r.c.cycle ELSE halted_at

\* The halted branch on the scheduled LCD.
SchedLoopHalted ==
    /\ IF halted
       THEN \E p \in {pump_cycle(lcd, min(get_next_event_cycle(lcd), stop_at_cycle))} :
              /\ LoopHaltedOn(get_next_event_cycle(lcd), p.int)
              /\ lcd' = p.lcd
       ELSE /\ LoopHaltedOn(FarEvent, NoInterrupt)
            /\ lcd' = lcd
    /\ halted_at' = halted_at

SchedNext ==
    \/ \E d \in Durations : RunForDuration(d)
    \/ SchedLoopRunCycle
    \/ SchedLoopHalted
    \/ Return

SchedSpec == SchedInit /\ [][SchedNext]_vars

\* Durations of up to three seconds, with sub-second parts at both ends.
LongDurations ==
    {[secs |-> sec, nanos |-> n] :
        sec \in 0..3, n \in {0, 1, 238, 239, 500000000, 999999999}}

\* run_for_duration is called with a long duration: the deadline is computed.
ClockNext == \E d \in LongDurations : RunForDuration(d)

ClockSpec == Init /\ [][ClockNext]_vars

\* The windows the executor is tried on: ADD, ADC, SUB, SBC and CP with each
\* register and (HL), their immediate forms, SCF, NOP, EI, DI and HALT, and
\* LD (nn),A with nn in RAM and nn in ROM, where the write fails.
ExecWindows ==
    {<<b0, 0, 0>> : b0 \in (128..159) \cup (184..191) \cup {55, 0, 251, 243, 118}}
    \cup {<<b0, n, 0>> : b0 \in {198, 206, 214, 222, 254}, n \in AluBytes}
    \cup {<<234, lo(RamBase), hi(RamBase)>>, <<234, 0, 0>>}

\* make_test_cpu with the registers a test sets: A is a, F is f, HL points
\* into RAM, and B, C, D, E and the byte at (HL) are v.
TestRegisters(a, f, v) ==
    [r \in Register8 |->
        CASE r = "A" -> a [] r = "F" -> f
          [] r = "H" -> hi(RamBase) [] r = "L" -> lo(RamBase)
          [] OTHER -> v]

ExecInit ==
    /\ \E a \in AluBytes, v \in AluBytes, f \in FlagBytes :
          /\ registers = TestRegisters(a, f, v)
          /\ ram = [x \in RamAddrs |-> IF x = RamBase THEN v ELSE 0]
    /\ sp = InitialSP
    /\ pc = TestPC
    /\ cycle = 0
    /\ interrupt_master_enable \in BOOLEAN
    /\ halted = FALSE
    /\ debug_halted = FALSE
    /\ last_instructions = <<>>
    /\ breakpoints = {}
    /\ interrupt_enable = 0
    /\ cart = 1
    /\ rpc = "idle"
    /\ stop_at_cycle = 0
    /\ call = [entry |-> 0, duration |-> [secs |-> 0, nanos |-> 0]]
    /\ ev = Event("new", TRUE, NoInfo)
    /\ pending = {}
    /\ bytes \in ExecWindows
    /\ decoded = NotDecoded
    /\ Unscheduled
    /\ HostIdle

\* cpu.execute(i) on the instruction decoded.
ExecuteDecoded ==
    /\ ev.kind = "new"
    /\ decoded.inst.t # "NotDecoded"
    /\ decoded.ok
    /\ \E r \in {execute(Cpu, decoded.inst)} :
        /\ SetCpu(r.c)
        /\ ev' = Event("execute", r.ok,
                       Info(FALSE, decoded.inst, decoded.len, r.ok, FALSE,
                            NoInterrupt, NoSnapshot))
    /\ UNCHANGED <<debug_halted, rpc, stop_at_cycle, call, pending, bytes, decoded>>
    /\ UNCHANGED <<lcdVars, hostVars>>

ExecNext ==
    \/ Decode
    \/ ExecuteDecoded

ExecSpec == ExecInit /\ [][ExecNext]_vars

\* run_for_duration runs on: the loop takes its next step whenever it can.
RunnerStep ==
    \/ \E int \in PumpResults : LoopRunCycle(int)
    \/ \E e \in EventCycles, int \in PumpResults : LoopHalted(e, int)
    \/ Return

\* The frame loop on the cartridge that halts at once, without the debugger:
\* a call of run_for_duration that has begun goes on to its end.
HaltInit == Init /\ cart = 2

HaltNext ==
    \/ \E d \in Durations : RunForDuration(d)
    \/ RunnerStep

HaltFairSpec == HaltInit /\ [][HaltNext]_vars /\ WF_vars(RunnerStep)

(***************************************************************************)
(* The properties.                                                         *)
(***************************************************************************)
\* The last step pumped the LCD and got an interrupt.
Pumped == ev.info.pumped /\ ev.info.int # NoInterrupt

\* The interrupt the last step got was one to dispatch: IME set, its bit set.
Dispatched == Pumped /\ ev.info.pre.ime /\ is_enabled(ev.info.int, ev.info.pre.ie)

\* What a dispatch leaves: IME clear, SP two lower, PC at the vector, and the
\* PC it found as the little-endian word at the new SP.
DispatchDone ==
    /\ ~interrupt_master_enable
    /\ sp = AddrAdd(ev.info.pre.sp, -2)
    /\ pc = table_address(ev.info.int)
    /\ mmu_read16(Cpu, sp) = ReadOk(ev.info.pre.pc)

\* C1 (as amended): when the pump returns an interrupt while IME is set and the
\* interrupt's bit of the interrupt-enable register is set, and the push of PC
\* succeeds, then after handle_interrupt IME is clear, SP is two lower, PC is
\* the interrupt's vector and the word at the new SP is the PC held before.
C1_DispatchOnSuccess == (Dispatched /\ ev.ok) => DispatchDone

\* C1 (as claimed): the same of every dispatch, whether or not its push succeeds.
C1_DispatchAlways == Dispatched => DispatchDone

C1_Witness ==
    /\ Dispatched /\ ev.ok
    /\ ev.info.int = "Timer"
    /\ pc = 80
    /\ sp = InitialSP - 2

\* C2 (as claimed): in every reachable state the low nibble of F is zero.
C2_FLowNibbleZero == registers["F"] % 16 = 0

C2_Witness ==
    /\ ev.ok /\ ev.info.executed
    /\ ev.info.inst = Load("Pop", "AF", Nil)
    /\ registers["F"] = 19

\* The words pushed to try the round trip.
StackValues == {4660, 45299, 65535}
Pairs == {"BC", "DE", "HL", "AF"}

\* push16(v) as p, then pop16: v comes back and SP is where it was, having
\* moved down by two and up by two.
RoundTrip(c, p, v) ==
    p.ok =>
        /\ p.c.sp = AddrAdd(c.sp, -2)
        /\ pop16(p.c).ok
        /\ pop16(p.c).v = v
        /\ pop16(p.c).c.sp = AddrAdd(p.c.sp, 2)
        /\ pop16(p.c).c.sp = c.sp

\* q is PUSH rr then POP rr from c: rr is what it was (F up to its low nibble).
Restored(c, q, rr) ==
    /\ q.ok
    /\ q.c.sp = c.sp
    /\ IF rr = "AF"
       THEN /\ q.c.registers["A"] = c.registers["A"]
            /\ q.c.registers["F"] \div 16 = c.registers["F"] \div 16
       ELSE read_r16(q.c, rr) = read_r16(c, rr)

PushThenPop(c, p, rr) == p.ok => Restored(c, execute(p.c, Load("Pop", rr, Nil)), rr)

\* C3: from every reachable state, whenever push16(v) succeeds, pop16 after it
\* returns v and leaves SP as before the push, push having moved SP down by two
\* and pop up by two; and PUSH rr then POP rr restores rr (AF up to F's low
\* nibble).
C3_StackRoundTrip ==
    /\ \A v \in StackValues : RoundTrip(Cpu, push16(Cpu, v), v)
    /\ \A rr \in Pairs : PushThenPop(Cpu, execute(Cpu, Load("Push", rr, Nil)), rr)

\* The last two instructions run were PUSH DE and POP DE, and DE is as before.
C3_Witness ==
    /\ Len(last_instructions) >= 2
    /\ last_instructions[Len(last_instructions) - 1][2] = Load("Push", "DE", Nil)
    /\ last_instructions[Len(last_instructions)][2] = Load("Pop", "DE", Nil)
    /\ ev.ok /\ ev.info.executed
    /\ read_r16(Cpu, "DE") = 216
    /\ push16(Cpu, 4660).ok

\* The address the last step fetched from: the newest entry of the trace.
FetchedAt == last_instructions[Len(last_instructions)][1]

\* The condition code of a conditional control instruction.
ConditionOf(i) == IF i.op = "ReturnConditional" THEN i.x ELSE i.y

Conditional(i) ==
    i.op \in {"JumpRelativeConditional", "JumpConditional", "CallConditional",
              "ReturnConditional"}

\* Where instruction i, fetched so that next is the address after it, leaves PC.
PCRule(i, next) ==
    IF i.t # "Control" THEN pc = next
    ELSE IF Conditional(i) /\ ~ConditionHolds(ConditionOf(i), flags(Cpu)) THEN pc = next
    ELSE IF i.op \in {"JumpRelative", "JumpRelativeConditional"}
    THEN pc = AddrAdd(next, i.x)
    ELSE IF i.op \in {"Jump", "JumpConditional", "Call", "CallConditional", "Reset"}
    THEN pc = i.x
    ELSE TRUE

\* C4: after a successful run_cycle that dispatched no interrupt, PC is the old
\* PC plus the decoded length for an instruction that is no control flow and
\* for a conditional whose condition is false, that plus the signed offset for
\* a taken relative jump, and the target for a taken absolute jump, call or
\* reset.  (Control instructions leave the flags alone, so the condition is
\* read off the flags after the step.)
C4_PCAdvance ==
    (ev.kind = "loop_run_cycle" /\ ev.ok /\ ev.info.executed /\ ~Dispatched)
        => PCRule(ev.info.inst, AddrAdd(FetchedAt, ev.info.len))

\* A call was taken: PC is its target, the return address is on the stack.
C4_Witness ==
    /\ ev.kind = "loop_run_cycle" /\ ev.ok /\ ev.info.executed /\ ~Dispatched
    /\ ev.info.inst = Control("Call", 260, Nil)
    /\ pc = 260
    /\ FetchedAt = 256

\* C5: a failed run_cycle in run_for_duration sets debug_halted; while it is
\* set the runner calls run_cycle no more (no fetch, no execution, no retry),
\* in this call or a later one; and only the debugger clears it.
C5_DebugHaltFreezes ==
    [][/\ (ev'.kind = "loop_run_cycle" /\ ~ev'.ok) => debug_halted'
       /\ debug_halted => /\ ev'.kind # "loop_run_cycle"
                          /\ ~ev'.info.fetched /\ ~ev'.info.executed
                          /\ last_instructions' = last_instructions
                          /\ (debug_halted' \/ ev'.kind = "resume")]_vars

\* A call of run_for_duration returned short of its deadline, debug_halted set.
C5_Witness ==
    /\ debug_halted
    /\ ev.kind = "return"
    /\ call.entry = cycle
    /\ call.duration.nanos = 2865
    /\ cycle < stop_at_cycle

\* The deadline of the running call: the cycle at entry plus d * CLOCK_RATE / 1s.
Deadline == call.entry + duration_to_cycle_count(call.duration)

\* C6 (as amended): run_for_duration returns with debug_halted false only when
\* the cycle counter has reached the deadline: it is greater than or equal to it.
C6_ReturnAtOrAfterDeadline ==
    (ev.kind = "return" /\ ~debug_halted) => cycle >= Deadline

\* C6 (as claimed): on return with debug_halted false the cycle counter is
\* strictly greater than the deadline.
C6_ReturnAfterDeadline ==
    (ev.kind = "return" /\ ~debug_halted) => cycle > Deadline

\* A call for 12 cycles returned after three instructions, at the deadline.
C6_Witness ==
    /\ ev.kind = "return" /\ ~debug_halted /\ ~halted
    /\ call.duration.nanos = 2865
    /\ cycle = Deadline
    /\ cycle = call.entry + 12

(***************************************************************************)
(* The debugger window (j2gbc_gfx/src/debugger.rs).  Its click handlers    *)
(* run on the GTK thread between calls of the runner; a button that is not *)
(* sensitive delivers no click.  The debugger interface of the core sets   *)
(* debug_halted on pause, clears it on resume, and on step runs one        *)
(* instruction and leaves it set.                                          *)
(***************************************************************************)
\* pause_button.connect_clicked: debugger().pause(); context.halted().
PauseClicked ==
    /\ rpc = "idle"
    /\ buttons.pause
    /\ debug_halted' = TRUE
    /\ buttons' = context_halted
    /\ ev' = Event("pause", TRUE, NoInfo)
    /\ UNCHANGED <<cpuVars, rpc, stop_at_cycle, call, pending, bytes, decoded>>
    /\ UNCHANGED <<lcdVars, audioVars>>

\* resume_button.connect_clicked: debugger().resume(); context.running().
ResumeClicked ==
    /\ rpc = "idle"
    /\ buttons.resume
    /\ debug_halted' = FALSE
    /\ buttons' = context_running
    /\ ev' = Event("resume", TRUE, NoInfo)
    /\ UNCHANGED <<cpuVars, rpc, stop_at_cycle, call, pending, bytes, decoded>>
    /\ UNCHANGED <<lcdVars, audioVars>>

\* step_button.connect_clicked: debugger().step(); context.halted().
StepClicked(int) ==
    /\ rpc = "idle"
    /\ buttons.step
    /\ cycle <= MaxCycle
    /\ StackRoom(2)
    /\ \E r \in {run_cycle(Cpu, int)} :
        /\ SetCpu(r.c)
        /\ ev' = Event("step", r.ok, r.info)
        /\ pending' = Unserved(pending, r)
    /\ debug_halted' = TRUE
    /\ buttons' = context_halted
    /\ UNCHANGED <<rpc, stop_at_cycle, call, bytes, decoded>>
    /\ UNCHANGED <<lcdVars, audioVars>>

\* The cartridges the window is tried on: EI; HALT ..., and JP 0x8000, whose
\* next fetch fails.
WindowCarts == {1, 11}

\* The emulator starts with the debugger window loaded.
WindowInit == Init /\ cart \in WindowCarts

WindowNext ==
    \/ \E d \in Durations : RunForDuration(d)
    \/ \E int \in PumpResults : LoopRunCycle(int)
    \/ \E e \in EventCycles, int \in PumpResults : LoopHalted(e, int)
    \/ Return
    \/ PauseClicked
    \/ ResumeClicked
    \/ \E int \in PumpResults : StepClicked(int)

WindowSpec == WindowInit /\ [][WindowNext]_vars

(***************************************************************************)
(* The audio hand-off (j2gbc_gfx/src/audio.rs).  The emulator thread calls *)
(* emit_sample, the audio thread runs the callback of feed_cpal_events;    *)
(* they meet at the mutex around the ring buffer.  A sample is the number  *)
(* of its emission.  The ring buffer keeps what push_back_slice wrote, in  *)
(* order, and pop_front_slice takes from its front; push_back_slice writes *)
(* its slice one sample after the other.                                   *)
(***************************************************************************)
\* The batch emit_sample hands over: local_queue.len() >= 10.
BatchSize == 10
\* Samples the emulator emits in a run of the model.
MaxSamples == 23
\* Frames the audio device asks for in one callback.
PopSizes == {4, 16}

\* Mutex::lock that does not wait for the holder.
CanLock_unheld(m) == TRUE

\* Mutex::lock returns once no thread holds the lock.
CanLock(m) == m = "none"

\* Everything but the audio sink.
coreVars == <<cpuVars, debug_halted, rpc, stop_at_cycle, call, ev, pending,
              bytes, decoded, lcdVars, buttons>>

\* emit_sample up to its lock: the sample joins local_queue, and a full
\* batch sends the thread to the lock.
EmitSample ==
    /\ ppc.at = "idle"
    /\ emitted < MaxSamples
    /\ emitted' = emitted + 1
    /\ local_queue' = Append(local_queue, emitted + 1)
    /\ ppc' = IF Len(local_queue) + 1 >= BatchSize THEN At("lock", 0) ELSE ppc
    /\ UNCHANGED <<queue, mutex, cpc, pushed, seen, coreVars>>

\* self.queue.lock().unwrap() in emit_sample.
EmitLock ==
    /\ ppc.at = "lock"
    /\ CanLock(mutex)
    /\ mutex' = "emulator"
    /\ ppc' = At("push", 0)
    /\ UNCHANGED <<local_queue, queue, cpc, emitted, pushed, seen, coreVars>>

\* push_back_slice(local_queue.as_slice()): the next sample of the slice.
PushBackSlice ==
    /\ ppc.at = "push"
    /\ ppc.n < Len(local_queue)
    /\ queue' = Append(queue, local_queue[ppc.n + 1])
    /\ pushed' = Append(pushed, local_queue[ppc.n + 1])
    /\ ppc' = At("push", ppc.n + 1)
    /\ UNCHANGED <<local_queue, mutex, cpc, emitted, seen, coreVars>>

\* The end of emit_sample's if: the guard is dropped, local_queue cleared.
EmitRelease ==
    /\ ppc.at = "push"
    /\ ppc.n = Len(local_queue)
    /\ mutex' = "none"
    /\ local_queue' = <<>>
    /\ ppc' = At("idle", 0)
    /\ UNCHANGED <<queue, cpc, emitted, pushed, seen, coreVars>>

\* The callback up to its lock: temp_buffer is resized to n frames.
CallbackLock(n) ==
    /\ cpc.at = "idle"
    /\ CanLock(mutex)
    /\ mutex' = "audio"
    /\ cpc' = At("pop", n)
    /\ UNCHANGED <<local_queue, queue, ppc, emitted, pushed, seen, coreVars>>

\* pop_front_slice(temp_buffer) and the drop of the guard.
PopFrontSlice ==
    /\ cpc.at = "pop"
    /\ queue' = SubSeq(queue, min(cpc.n, Len(queue)) + 1, Len(queue))
    /\ seen' = Len(pushed)
    /\ mutex' = IF mutex = "audio" THEN "none" ELSE mutex
    /\ cpc' = At("idle", 0)
    /\ UNCHANGED <<local_queue, ppc, emitted, pushed, coreVars>>

AudioInit == Init /\ cart = 1 /\ interrupt_enable = 5

AudioNext ==
    \/ EmitSample
    \/ EmitLock
    \/ PushBackSlice
    \/ EmitRelease
    \/ \E n \in PopSizes : CallbackLock(n)
    \/ PopFrontSlice

AudioSpec == AudioInit /\ [][AudioNext]_vars

\* C7 (as claimed): every call of run_for_duration returns (or leaves the
\* model's stack depth).
C7_Terminates == (rpc = "while") ~> (rpc = "idle" \/ ~StackRoom(2))

\* C8 (as claimed): no step lowers the cycle counter.
C8_CycleMonotone == [][cycle' >= cycle]_vars

\* The last step woke a halted Cpu's handle_interrupt with an enabled interrupt.
WakeUp == Pumped /\ ev.info.pre.halted /\ is_enabled(ev.info.int, ev.info.pre.ie)

\* C9 (as amended): a halted Cpu that gets an enabled interrupt from the pump
\* leaves the halted state unless the push of a dispatch fails (IME set); with
\* IME clear it leaves it, writes nothing, and leaves SP and PC as they were.
C9_WakeUp ==
    [][/\ (WakeUp' /\ ev'.ok) => ~halted'
       /\ (WakeUp' /\ ~ev'.info.pre.ime) =>
            /\ ev'.ok /\ ~halted'
            /\ sp' = ev'.info.pre.sp /\ pc' = ev'.info.pre.pc
            /\ ram' = ram /\ interrupt_enable' = interrupt_enable]_vars

\* C9 (as claimed): a halted Cpu that gets an enabled interrupt from the pump
\* leaves the halted state, whatever IME is.
C9_WakeUpAlways == WakeUp => ~halted

\* The coalescing step woke the Cpu with IME clear: nothing pushed.
C9_Witness ==
    /\ ev.kind = "loop_halted"
    /\ WakeUp /\ ~ev.info.pre.ime
    /\ ~halted
    /\ sp = InitialSP
    /\ pc = InitialPC + 1

\* C10: run_cycle on a halted Cpu returns Ok, reads no memory, pumps nothing
\* and changes no field of the Cpu, whatever the pump would return; so in
\* main's loop a halted Cpu stays halted.
C10_HaltedRunCycleIsNoOp ==
    [][halted =>
         /\ \A int \in PumpResults :
               run_cycle(Cpu, int) = [ok |-> TRUE, c |-> Cpu, info |-> NoInfo]
         /\ ev'.kind = "main_run_cycle" =>
               /\ ev'.ok /\ ~ev'.info.fetched /\ ~ev'.info.pumped
               /\ UNCHANGED cpuVars
               /\ halted']_vars

\* main called run_cycle on a halted Cpu.
C10_Witness ==
    /\ halted
    /\ ev.kind = "main_run_cycle"
    /\ ev.info = NoInfo
    /\ pc = InitialPC + 2

\* The instruction the step executed sets IME: EI or RETI.
SetsIME(e) ==
    /\ e.info.executed
    /\ e.info.inst \in {Plain("EnableInterrupts"), Control("InterruptReturn", Nil, Nil)}

\* The bytes of the stack RAM that differ from what handle_interrupt found.
Pushed == {a \in RamAddrs : ram[a] # ev.info.pre.ram[a]}

\* An interrupt that is not to be dispatched leaves PC, SP, IME and the
\* memory as handle_interrupt found them.
NotDispatched ==
    (Pumped /\ ~Dispatched) =>
        /\ ev.ok
        /\ pc = ev.info.pre.pc
        /\ sp = ev.info.pre.sp
        /\ interrupt_master_enable = ev.info.pre.ime
        /\ ram = ev.info.pre.ram
        /\ interrupt_enable = ev.info.pre.ie

\* One interrupt the pump returned is dispatched once: one word is pushed.
DispatchedOnce ==
    (Dispatched /\ ev.ok) =>
        /\ sp = AddrAdd(ev.info.pre.sp, -2)
        /\ Pushed \subseteq {sp, AddrAdd(sp, 1)}
        /\ ~interrupt_master_enable

\* C11: an interrupt the pump returns while IME is clear or while its bit of
\* the interrupt-enable register is clear is not dispatched: PC, SP, IME and
\* the stack memory stay as they were.  One pump result leads to at most one
\* dispatch, and from a state with IME clear a step dispatches only if its
\* instruction was EI or RETI.
C11_DispatchGated ==
    [][/\ NotDispatched'
       /\ DispatchedOnce'
       /\ (Dispatched' /\ ~interrupt_master_enable) => SetsIME(ev')]_vars

\* The pump returned, after EI, an interrupt whose bit of the interrupt-enable
\* register is clear.
C11_Witness ==
    /\ Pumped /\ ~Dispatched
    /\ ev.info.pre.ime
    /\ ~is_enabled(ev.info.int, ev.info.pre.ie)
    /\ ev.info.inst = Plain("EnableInterrupts")
    /\ pc = InitialPC + 1

\* C12: a dispatch charges 20 cycles.
C12_DispatchCharges20 ==
    (Dispatched /\ ev.ok) => cycle = ev.info.pre.cycle + 20

\* An interrupt was dispatched after EI on the first cartridge.
C12_Witness ==
    /\ Dispatched /\ ev.ok /\ DispatchDone
    /\ ev.info.inst = Plain("EnableInterrupts")
    /\ cycle = ev.info.pre.cycle

\* C13: when the push of PC fails during a dispatch, the runner sets
\* debug_halted, IME stays set, and PC and SP keep the values they had before
\* the dispatch.
C13_PushFailure ==
    (Dispatched /\ ~ev.ok) =>
        /\ debug_halted
        /\ interrupt_master_enable
        /\ pc = ev.info.pre.pc
        /\ sp = ev.info.pre.sp

\* The dispatch after LD SP,0x0100; EI found the stack in ROM.
C13_Witness ==
    /\ Dispatched /\ ~ev.ok
    /\ debug_halted
    /\ sp = 256
    /\ ev.kind = "loop_run_cycle"

\* The vectors of the interrupts in p.
Vectors(p) == {table_address(i) : i \in p \ {NoInterrupt}}

\* The pending interrupts whose bit of the interrupt-enable register is set.
PendingEnabled == {i \in pending : is_enabled(i, interrupt_enable)}

\* C14: an interrupt the pump returns while it is enabled and IME is set is
\* dispatched by the end of that run_cycle; and one the pump returned while
\* IME was clear is not lost: a run_cycle that begins with IME set and such an
\* interrupt enabled, and whose instruction is not DI, ends with a dispatch.
C14_DispatchLatency ==
    [][(ev'.kind = "main_run_cycle" /\ ev'.ok /\ ev'.info.executed) =>
         /\ Dispatched' => pc' = table_address(ev'.info.int)
         /\ (/\ interrupt_master_enable
             /\ PendingEnabled # {}
             /\ ev'.info.inst # Plain("DisableInterrupts"))
            => (/\ ~interrupt_master_enable'
                /\ pc' \in Vectors(pending \cup {ev'.info.int}))]_vars

\* After NOP with an enabled interrupt from the pump, then EI, a third
\* run_cycle went by with IME set and the interrupt not dispatched.
C14_Witness ==
    /\ cart = 13
    /\ ev.kind = "main_run_cycle" /\ ev.ok
    /\ pc = InitialPC + 3
    /\ interrupt_master_enable
    /\ PendingEnabled # {}
    /\ sp = InitialSP

\* C15: breakpoints are one-shot and fire before the fetch.  run_cycle on a
\* Cpu that is not halted and whose PC is in the breakpoint set removes that
\* address and returns the error without a fetch: PC, the registers, SP, the
\* cycle counter and the trace ring stay, and the runner sets debug_halted.
\* A run_cycle on a Cpu that is not halted and whose PC is not (or no longer)
\* in the set leaves the set alone and fetches.
C15_BreakpointOneShot ==
    [][ev'.kind = "loop_run_cycle" =>
         IF ~halted /\ pc \in breakpoints
         THEN /\ ~ev'.ok
              /\ ~ev'.info.fetched
              /\ breakpoints' = breakpoints \ {pc}
              /\ UNCHANGED <<pc, registers, sp, cycle, last_instructions, ram>>
              /\ debug_halted'
         ELSE /\ breakpoints' = breakpoints
              /\ ~halted => ev'.info.fetched]_vars

\* The breakpoint behind the first instruction fired.
C15_Witness ==
    /\ ev.kind = "loop_run_cycle"
    /\ ~ev.ok /\ ~ev.info.fetched
    /\ ~halted
    /\ debug_halted
    /\ pc = InitialPC + 1
    /\ breakpoints = {}
    /\ Len(last_instructions) = 1

\* The last step's run_cycle fetched and decoded an instruction.
FetchedOk(e) == e.info.fetched /\ e.info.len > 0

\* C16: the trace ring holds at most 50 entries.  A run_cycle whose fetch
\* succeeds appends one entry, the instruction with the address it was
\* fetched from, at the back, after evicting the oldest entry of a full ring;
\* a failed fetch and a breakpoint append nothing.
C16_TraceRing ==
    [][ev'.kind = "main_run_cycle" =>
         /\ Len(last_instructions') <= TraceCap
         /\ IF FetchedOk(ev')
            THEN last_instructions' =
                   Append(IF Len(last_instructions) >= TraceCap
                          THEN Tail(last_instructions) ELSE last_instructions,
                          <<map_address_into_rom(pc), ev'.info.inst>>)
            ELSE last_instructions' = last_instructions]_vars

\* The ring after the 51st fetch of a run without breakpoints.
C16_Witness ==
    /\ ev.kind = "main_run_cycle"
    /\ FetchedOk(ev)
    /\ Len(last_instructions) = TraceCap + 1
    /\ last_instructions[1][1] = InitialPC

\* decode was called on the window.
Called == decoded.inst.t # "NotDecoded"

\* The first bytes that stand for no instruction.
Reserved == {211, 219, 221, 227, 228, 235, 236, 237, 244, 252, 253}

\* The reference length of the opcode b: 3 for the 16-bit immediate loads,
\* LD (nn),SP, JP nn, CALL nn, LD (nn),A, LD A,(nn) and the conditional absolute
\* jumps and calls; 2 for the 8-bit immediate loads, the ALU immediates, LDH,
\* ADD SP,e, LD HL,SP+e, STOP and the relative jumps; 1 for the rest.
RefLength(b) ==
    IF b \in {1, 17, 33, 49, 8, 195, 205, 234, 250,
              194, 202, 210, 218, 196, 204, 212, 220} THEN 3
    ELSE IF b \in {6, 14, 22, 30, 38, 46, 54, 62,
                   198, 206, 214, 222, 230, 238, 246, 254,
                   224, 240, 232, 248, 16, 24, 32, 40, 48, 56} THEN 2
    ELSE 1

\* A Stop whose second byte is not the 0x00 padding.
MalformedStop == bytes[1] = 16 /\ bytes[2] # 0

\* C17 (as amended): for every first byte that is neither reserved nor 0xCB,
\* decode succeeds whatever the second and third bytes are, with the reference
\* length of the opcode; except that 0x10 decodes only when the second byte is
\* 0x00, and fails otherwise.
C17_RefLengthButMalformedStop ==
    (Called /\ bytes[1] \notin Reserved \cup {203}) =>
        IF MalformedStop THEN ~decoded.ok
        ELSE decoded.ok /\ decoded.len = RefLength(bytes[1])

\* C17 (as stated): for every first byte that is neither reserved nor 0xCB,
\* decode succeeds for all second and third bytes, with the reference length.
C17_RefLength ==
    (Called /\ bytes[1] \notin Reserved \cup {203}) =>
        decoded.ok /\ decoded.len = RefLength(bytes[1])

\* LD (nn),A was decoded with 0xFF 0xFF behind it.
C17_Witness ==
    /\ Called
    /\ bytes = <<234, 255, 255>>
    /\ decoded.ok
    /\ decoded.len = 3

\* C18: decode fails for exactly the windows whose first byte is reserved and
\* the windows 0x10 with a non-zero second byte; every other window decodes,
\* 0x76 as Halt.
C18_DecodeFailsExactly ==
    Called =>
        /\ ~decoded.ok <=> (bytes[1] \in Reserved \/ MalformedStop)
        /\ bytes[1] = 118 => decoded = [ok |-> TRUE, inst |-> Plain("Halt"), len |-> 1]

\* decode was called on a malformed Stop and failed.
C18_Witness ==
    /\ Called
    /\ MalformedStop
    /\ bytes[3] = 128
    /\ ~decoded.ok

\* The rotates and shifts of the 0xCB table, by bits 5:3 of the second byte.
CBShifts ==
    <<"RotateLeftCarry", "RotateRightCarry", "RotateLeft", "RotateRight",
      "ShiftLeftArithmetic", "ShiftRightArithmetic", "Swap", "ShiftRightLogical">>

\* The operands, by bits 2:0 of the second byte.
CBOperands ==
    <<Register("B"), Register("C"), Register("D"), Register("E"), Register("H"),
      Register("L"), IndirectRegister("HL"), Register("A")>>

\* The instruction the 0xCB table assigns to the second byte b.
CBInstruction(b) ==
    IF b \div 64 = 0
    THEN Bits(CBShifts[(b \div 8) + 1], CBOperands[(b % 8) + 1], Nil)
    ELSE Bits(<<"GetBit", "ResetBit", "SetBit">>[b \div 64],
              (b \div 8) % 8, CBOperands[(b % 8) + 1])

\* C19: decode of 0xCB b y succeeds with length 2 for every b and y; 0x00..0x3F
\* are RLC, RRC, RL, RR, SLA, SRA, SWAP, SRL in groups of eight, 0x40..0x7F is
\* BIT, 0x80..0xBF is RES, 0xC0..0xFF is SET, with the bit index (b >> 3) & 7
\* and the operand from bits 2:0.
C19_CBTable ==
    (Called /\ bytes[1] = 203) =>
        decoded = [ok |-> TRUE, inst |-> CBInstruction(bytes[2]), len |-> 2]

\* decode was called on 0xCB 0xBE: RES 7,(HL).
C19_Witness ==
    /\ Called
    /\ bytes = <<203, 190, 1>>
    /\ decoded.inst = Bits("ResetBit", 7, IndirectRegister("HL"))

\* The instruction i with v as its 16-bit immediate.
WithImmediate16(i, v) ==
    IF i.op = "LoadRegisterImmediate16" THEN [i EXCEPT !.y = v] ELSE [i EXCEPT !.x = v]

\* What decode returns for the window with y as its third byte, given what it
\* returned for the window: the same, but for the high byte of a 16-bit
\* immediate.
WithThirdByte(y) ==
    IF decoded.len = 3
    THEN [decoded EXCEPT !.inst = WithImmediate16(decoded.inst, y * W8 + bytes[2])]
    ELSE decoded

\* C20 (as amended): for two windows that agree on their first two bytes decode
\* returns the same success or failure and the same length, and the same
\* instruction with the same operands unless the length is 3; the 16-bit
\* immediate of a 3-byte instruction is the third byte times 256 plus the
\* second.
C20_ThirdByteOnlyInImmediate16 ==
    Called => \A y \in 0..(W8 - 1) : decode(bytes[1], bytes[2], y) = WithThirdByte(y)

\* C20 (as stated): for two windows that agree on their first two bytes decode
\* returns the same result, whatever the third bytes are.
C20_ThirdByteIrrelevant ==
    Called => \A y \in 0..(W8 - 1) : decode(bytes[1], bytes[2], y) = decoded

\* decode was called on JP 0x8001.
C20_Witness ==
    /\ Called
    /\ bytes = <<195, 1, 128>>
    /\ decoded = [ok |-> TRUE, inst |-> Control("Jump", 32769, Nil), len |-> 3]

\* C21: decode reads only as many bytes as the length it reports: where the
\* length is 1 the result is the same for every second and every third byte,
\* and where it is 2 the result is the same for every third byte.
C21_ReadsOnlyLength ==
    (Called /\ decoded.ok) =>
        /\ decoded.len = 1 =>
              /\ \A x \in 0..(W8 - 1) : decode(bytes[1], x, bytes[3]) = decoded
              /\ \A x \in SampleBytes, y \in 0..(W8 - 1) : decode(bytes[1], x, y) = decoded
        /\ decoded.len = 2 =>
              \A y \in 0..(W8 - 1) : decode(bytes[1], bytes[2], y) = decoded

\* decode was called on LD B,0x7F with 0xFF behind it, a window of length 2.
C21_Witness ==
    /\ Called
    /\ bytes = <<6, 127, 255>>
    /\ decoded = [ok |-> TRUE, inst |-> Load("Load", Register("B"), Immediate(127)), len |-> 2]

\* C22: no instruction decode returns makes execute write to an Immediate:
\* every operand handed to write_operand is a Register, an IndirectRegister or
\* an IndirectAddress, so its panic is not reached.
C22_NoWriteToImmediate ==
    (Called /\ decoded.ok) =>
        \A o \in WrittenOperands(decoded.inst) :
            /\ ~write_operand_panics(o)
            /\ o.k \in {"Register", "IndirectRegister", "IndirectAddress"}

\* decode was called on LD (HL),0x01: the Immediate is the source.
C22_Witness ==
    /\ Called
    /\ bytes = <<54, 1, 0>>
    /\ decoded.ok
    /\ WrittenOperands(decoded.inst) = {IndirectRegister("HL")}
    /\ decoded.inst.y = Immediate(1)

\* An execute has been called on the instruction decoded.
Executed(e) == e.kind = "execute"

\* C23: execute charges cycles only on success.  When it returns Ok the cycle
\* counter has grown by exactly the nominal cycle count of the instruction,
\* which is 4 for Nop; when it returns a memory error the counter is unchanged.
C23_ChargeOnSuccess ==
    [][Executed(ev') =>
          IF ev'.ok
          THEN /\ cycle' = cycle + cycles(decoded.inst, FALSE)
               /\ decoded.inst = Plain("Nop") => cycle' = cycle + 4
          ELSE cycle' = cycle]_vars

\* LD (0x0000),A failed on its write to ROM and nothing was charged.
C23_Witness ==
    /\ Executed(ev) /\ ~ev.ok
    /\ bytes = <<234, 0, 0>>
    /\ decoded.inst = Load("LoadMemoryFromA", 0, Nil)
    /\ cycle = 0

\* A run_cycle has executed a control-flow instruction.
ExecutedControl(e) ==
    /\ e.kind \in {"loop_run_cycle", "main_run_cycle"}
    /\ e.info.fetched /\ e.info.executed
    /\ e.info.inst.t = "Control"

\* C24: the cycles charged for a conditional control-flow instruction depend
\* on whether the branch was taken: a conditional relative jump is charged 12
\* cycles when taken and 8 when not, and a conditional return or call is
\* charged more when taken than its not-taken count.
C24_BranchCost ==
    [][ExecutedControl(ev') =>
          /\ ev'.info.inst.op = "JumpRelativeConditional" =>
                cycle' = cycle + (IF ConditionHolds(ev'.info.inst.y, registers["F"])
                                  THEN 12 ELSE 8)
          /\ (/\ ev'.info.inst.op = "ReturnConditional"
              /\ ConditionHolds(ev'.info.inst.x, registers["F"])) =>
                cycle' > cycle + cycles(ev'.info.inst, FALSE)
          /\ (/\ ev'.info.inst.op = "CallConditional"
              /\ ConditionHolds(ev'.info.inst.y, registers["F"])) =>
                cycle' > cycle + cycles(ev'.info.inst, FALSE)]_vars

\* JR Z,+1 at 0x0100 was taken with Z set, and 8 cycles were charged.
C24_Witness ==
    /\ ExecutedControl(ev)
    /\ cart = 8
    /\ ev.info.inst = Control("JumpRelativeConditional", 1, "Z")
    /\ pc = InitialPC + 3
    /\ cycle = 8

\* C25: duration_to_cycle_count(d) is secs * 4194304 plus the floor of
\* 4194304 * subsec_nanos / 10^9, so that one second yields 4194304 cycles.
C25_ClockRate ==
    ev.kind = "run_for_duration" =>
        /\ stop_at_cycle = call.entry + call.duration.secs * 4194304
                              + MulDivMod(4194304, call.duration.nanos, NSEC_PER_SEC)[1]
        /\ call.duration = [secs |-> 1, nanos |-> 0] =>
              stop_at_cycle = call.entry + 4194304

\* One second from cycle 0 set the deadline 4190000 cycles ahead.
C25_Witness ==
    /\ ev.kind = "run_for_duration"
    /\ call = [entry |-> 0, duration |-> [secs |-> 1, nanos |-> 0]]
    /\ stop_at_cycle = 4190000

\* An execute of instruction family t, operation op, has returned Ok.
ExecutedOp(e, t, op) ==
    /\ Executed(e) /\ e.ok
    /\ e.info.inst.t = t
    /\ e.info.inst.op = op

\* C26: SBC A,x leaves A = (A - x - c) mod 256 with N set and C set exactly
\* when A < x + c: the accumulator is the minuend and the operand the
\* subtrahend, as for SUB.
C26_SbcFromAccumulator ==
    [][ExecutedOp(ev', "Arith", "SubtractWithCarry") =>
          \A x \in {read_operand(Cpu, decoded.inst.x).v},
             cy \in {CarryIn(get_carry(registers["F"]))} :
              /\ registers'["A"] = (registers["A"] - x - cy + 2 * W8) % W8
              /\ Bit(registers'["F"], 6) = 1
              /\ get_carry(registers'["F"]) <=> registers["A"] < x + cy]_vars

\* SBC A,B with A = 0x3C, B = 0x12 and no carry left A = 0xD6 with carry,
\* which is B - A, where A - B is 0x2A without carry.
C26_Witness ==
    /\ ExecutedOp(ev, "Arith", "SubtractWithCarry")
    /\ bytes[1] = 152
    /\ registers["B"] = 18
    /\ registers["A"] = 214
    /\ registers["F"] = MakeFlags(FALSE, TRUE, TRUE, TRUE)

\* C27: CP v leaves A and every register other than F unchanged, and PC and
\* SP unchanged, and sets F to the flags of A - v: Z exactly when A = v, N set,
\* H exactly when the low nibble of A is below that of v, C exactly when
\* A < v.  A = 0x3C with v = 0x3C gives F = 0xC0, with v = 0x2F F = 0x60.
C27_CompareSetsFlagsOnly ==
    [][ExecutedOp(ev', "Compare", Nil) =>
          \A v \in {read_operand(Cpu, decoded.inst.x).v} :
              /\ registers' =
                    [registers EXCEPT !["F"] =
                        MakeFlags(registers["A"] = v, TRUE,
                                  registers["A"] % 16 < v % 16, registers["A"] < v)]
              /\ pc' = pc
              /\ sp' = sp
              /\ (registers["A"] = 60 /\ v = 60) => registers'["F"] = 192
              /\ (registers["A"] = 60 /\ v = 47) => registers'["F"] = 96]_vars

\* CP 0x2F with A = 0x3C left F = 0x60 and A as it was.
C27_Witness ==
    /\ ExecutedOp(ev, "Compare", Nil)
    /\ bytes = <<254, 47, 0>>
    /\ registers["A"] = 60
    /\ registers["F"] = 96
    /\ pc = TestPC /\ sp = InitialSP

\* The flags of the sum a + v.
SumFlags(a, v) == MakeFlags((a + v) % W8 = 0, FALSE, (a % 16) + (v % 16) > 15, a + v > 255)

\* ADD A,v, with v a register or the byte at (HL), leaves A = (A + v) mod 256
\* and F with Z exactly when the result is 0, N clear, H exactly when the low
\* nibbles carry and C exactly when A + v > 0xFF; the source register, H, L, PC
\* and SP are unchanged.
C28_AddKeepsSource ==
    [][(/\ ExecutedOp(ev', "Arith", "Add")
        /\ decoded.inst.x.k \in {"Register", "IndirectRegister"}) =>
          \A v \in {read_operand(Cpu, decoded.inst.x).v} :
              /\ registers'["A"] = (registers["A"] + v) % W8
              /\ registers'["F"] = SumFlags(registers["A"], v)
              /\ decoded.inst.x.k = "Register" =>
                    registers'[decoded.inst.x.v] = registers[decoded.inst.x.v]
              /\ registers'["H"] = registers["H"]
              /\ registers'["L"] = registers["L"]
              /\ pc' = pc
              /\ sp' = sp]_vars

\* C28: ADD A,v, with v a register or the byte at (HL), leaves
\* A = (A + v) mod 256 and F with Z exactly when the result is 0, N clear, H
\* exactly when the low nibbles carry and C exactly when A + v > 0xFF; every
\* register other than A and F, and so the source register when it is not A
\* itself, the byte at (HL), PC and SP are unchanged.  0x3A + 0xC6 gives A = 0
\* and F = 0xB0, 0x3C + 0x12 gives A = 0x4E and F = 0x00.
C28_Add ==
    [][(/\ ExecutedOp(ev', "Arith", "Add")
        /\ decoded.inst.x.k \in {"Register", "IndirectRegister"}) =>
          \A v \in {read_operand(Cpu, decoded.inst.x).v} :
              /\ registers' = [registers EXCEPT !["A"] = (registers["A"] + v) % W8,
                                                !["F"] = SumFlags(registers["A"], v)]
              /\ ram' = ram
              /\ pc' = pc
              /\ sp' = sp
              /\ (registers["A"] = 58 /\ v = 198) =>
                    registers'["A"] = 0 /\ registers'["F"] = 176
              /\ (registers["A"] = 60 /\ v = 18) =>
                    registers'["A"] = 78 /\ registers'["F"] = 0]_vars

\* ADD A,(HL) with A = 0x3A and 0xC6 at (HL) left A = 0 and F = 0xB0.
C28_Witness ==
    /\ ExecutedOp(ev, "Arith", "Add")
    /\ bytes[1] = 134
    /\ ram[RamBase] = 198
    /\ registers["A"] = 0
    /\ registers["F"] = 176
    /\ read_r16(Cpu, "HL") = RamBase

\* C29: SCF sets the carry flag, clears N and H and preserves Z, for every
\* prior value of F; every other register, PC and SP are unchanged.
C29_SetCarry ==
    [][ExecutedOp(ev', "SetCarry", Nil) =>
          /\ registers' =
                [registers EXCEPT !["F"] =
                    MakeFlags(get_zero(registers["F"]), FALSE, FALSE, TRUE)
                        + (registers["F"] % 16)]
          /\ get_carry(registers'["F"])
          /\ Bit(registers'["F"], 6) = 0
          /\ Bit(registers'["F"], 5) = 0
          /\ get_zero(registers'["F"]) <=> get_zero(registers["F"])
          /\ pc' = pc
          /\ sp' = sp]_vars

\* SCF on a flag word with every flag set left Z and C: F = 0x90.
C29_Witness ==
    /\ ExecutedOp(ev, "SetCarry", Nil)
    /\ bytes[1] = 55
    /\ registers["F"] = 144
    /\ registers["A"] = 198
    /\ pc = TestPC /\ sp = InitialSP

\* An execute of one of Nop, EI, DI and Halt has returned Ok.
ExecutedPlain(e, t) == ExecutedOp(e, t, Nil)

\* C30: Nop, EI, DI and Halt leave the eight 8-bit registers, PC and SP
\* unchanged.  EI sets IME and DI clears it at once, Halt sets halted, Nop
\* changes neither; each touches no flag other than its own.
C30_PlainFrame ==
    [][(\E t \in {"Nop", "EnableInterrupts", "DisableInterrupts", "Halt"} :
            ExecutedPlain(ev', t)) =>
          /\ registers' = registers
          /\ pc' = pc
          /\ sp' = sp
          /\ ram' = ram
          /\ interrupt_master_enable' =
                CASE decoded.inst.t = "EnableInterrupts" -> TRUE
                  [] decoded.inst.t = "DisableInterrupts" -> FALSE
                  [] OTHER -> interrupt_master_enable
          /\ halted' = (halted \/ decoded.inst.t = "Halt")]_vars

\* EI returned with IME set and Halt not: the registers are those of the
\* start.
C30_Witness ==
    /\ ExecutedPlain(ev, "EnableInterrupts")
    /\ interrupt_master_enable
    /\ ~halted
    /\ registers = TestRegisters(60, 240, 18)
    /\ pc = TestPC /\ sp = InitialSP
    /\ cycle = 4

\* C31: a newly created CPU has A = 0x01, F = 0xB0, B = 0x00, C = 0x13,
\* D = 0x00, E = 0xD8, H = 0x01, L = 0x4D, SP = 0xFFFE and PC = 0x0100, and is
\* running: cycle counter 0, not halted, not debug-halted, with an empty trace
\* ring and an empty breakpoint set.
C31_NewCpu ==
    ev.kind = "new" =>
        /\ registers["A"] = 1 /\ registers["F"] = 176
        /\ registers["B"] = 0 /\ registers["C"] = 19
        /\ registers["D"] = 0 /\ registers["E"] = 216
        /\ registers["H"] = 1 /\ registers["L"] = 77
        /\ sp = 65534
        /\ pc = 256
        /\ cycle = 0
        /\ ~halted
        /\ ~debug_halted
        /\ last_instructions = <<>>
        /\ breakpoints = {}

\* The CPU as Cpu::new returned it, before any call on it.
C31_Witness ==
    /\ ev.kind = "new"
    /\ rpc = "idle"
    /\ read_r16(Cpu, "HL") = 333
    /\ read_r16(Cpu, "AF") = 432
    /\ ~interrupt_master_enable

\* The step-by-step halt loop: the halted CPU advances 4 cycles at a time from
\* cyc and pumps after each step; <<interrupt, cycle>> of the first interrupt
\* the pump returns, on the LCD with the events given.
RECURSIVE StepLoop(_, _)
StepLoop(cyc, events) ==
    IF events = <<>> THEN <<NoInterrupt, FarFuture>>
    ELSE IF Head(events).at <= cyc + 4 THEN <<Head(events).int, cyc + 4>>
    ELSE StepLoop(cyc + 4, events)

\* The halted branch has run on the scheduled LCD.
Coalesced(e) == e.kind = "loop_halted"

\* What the halted branch saw agrees with the step-by-step loop from the cycle
\* of the halt: an interrupt the pump returned is the one the step-by-step
\* loop gets first, at the same cycle, and when the pump returned none the
\* step-by-step loop has none up to this cycle either; and the counter is not
\* beyond the deadline.
AsStepByStep ==
    /\ cycle' <= stop_at_cycle
    /\ IF ev'.info.int # NoInterrupt
       THEN StepLoop(halted_at, lcd.events) = <<ev'.info.int, cycle'>>
       ELSE StepLoop(halted_at, lcd.events)[2] > cycle'

\* Every event of the schedule, and the halt, is on the 4-cycle grid.
OnGrid == halted_at % 4 = 0 /\ \A k \in DOMAIN lcd.events : lcd.events[k].at % 4 = 0

\* C32 (as claimed): for every peripheral schedule the halted branch, which
\* fast-forwards the counter to min(next event cycle, deadline) and pumps once,
\* gets the same interrupts from the pump at the same cycles as a loop that
\* advances the halted CPU 4 cycles at a time and pumps after each step, and
\* never moves the counter past the deadline.
C32_CoalescingEquivalent == [][Coalesced(ev') => AsStepByStep]_vars

\* C32 (as amended): the same for the schedules whose events lie on the
\* 4-cycle grid of the step-by-step loop.
C32_CoalescingOnGrid == [][(Coalesced(ev') /\ OnGrid) => AsStepByStep]_vars

\* The CPU halted at cycle 4 and was woken by the VBlank of cycle 12, at cycle
\* 12, in a call whose deadline is cycle 16.
C32_Witness ==
    /\ Coalesced(ev)
    /\ ev.info.int = "VBlank"
    /\ halted_at = 4
    /\ cycle = 12
    /\ stop_at_cycle = 16
    /\ ~halted

\* The Cpu after the step.
CpuAfter ==
    [registers |-> registers', pc |-> pc', sp |-> sp', cycle |-> cycle',
     interrupt_master_enable |-> interrupt_master_enable', halted |-> halted',
     last_instructions |-> last_instructions', breakpoints |-> breakpoints',
     ram |-> ram', interrupt_enable |-> interrupt_enable', cart |-> cart']

\* A run_cycle has executed a control-flow instruction and the pump returned
\* no interrupt after it.
ControlAlone(e) == ExecutedControl(e) /\ e.info.int = NoInterrupt

\* The instruction i is a call that is made on the flag word f.
CallMade(i, f) ==
    \/ i.op \in {"Call", "Reset"}
    \/ i.op = "CallConditional" /\ ConditionHolds(i.y, f)

\* The instruction i is a conditional call or return whose condition is false
\* on the flag word f.
NotTaken(i, f) ==
    \/ i.op = "CallConditional" /\ ~ConditionHolds(i.y, f)
    \/ i.op = "ReturnConditional" /\ ~ConditionHolds(i.x, f)

\* r is a return that came back to the address a with SP at s.
ReturnedTo(r, a, s) == r.ok /\ r.c.pc = a /\ r.c.sp = s

\* C33: CALL and RST executed through run_cycle push the address of the
\* instruction that follows them, PC advanced by the decoded length, and set
\* PC to the target; a RET or RETI on the stack they leave sets PC to that
\* address and SP to its value before the call, RETI setting IME as well; a
\* conditional CALL or RET whose condition is false leaves SP and the stack
\* memory unchanged.
C33_CallReturnPairing ==
    [][ControlAlone(ev') =>
          /\ CallMade(ev'.info.inst, registers["F"]) =>
                /\ pc' = ev'.info.inst.x
                /\ sp' = AddrAdd(sp, -2)
                /\ mmu_read16(CpuAfter, sp') = ReadOk(AddrAdd(pc, ev'.info.len))
                /\ ReturnedTo(execute(CpuAfter, Control("Return", Nil, Nil)),
                              AddrAdd(pc, ev'.info.len), sp)
                /\ ReturnedTo(execute(CpuAfter, Control("InterruptReturn", Nil, Nil)),
                              AddrAdd(pc, ev'.info.len), sp)
                /\ execute(CpuAfter, Control("InterruptReturn", Nil, Nil))
                      .c.interrupt_master_enable
          /\ NotTaken(ev'.info.inst, registers["F"]) =>
                /\ sp' = sp
                /\ ram' = ram]_vars

\* CALL 0x0104 at 0x0100 and the RET it reaches have run: PC is 0x0103 and SP
\* is where it was.
C33_Witness ==
    /\ ControlAlone(ev)
    /\ Len(last_instructions) = 2
    /\ last_instructions[1][2] = Control("Call", 260, Nil)
    /\ last_instructions[2][2] = Control("Return", Nil, Nil)
    /\ pc = InitialPC + 3
    /\ sp = InitialSP

\* Instructions that reach memory: loads through HL with and without its
\* post-increment, through an address, the stack instructions, the calls and
\* returns, and the ALU operations on (HL).
MemoryInstructions ==
    {Load("LoadIndirectFromA", 1, Nil), Load("LoadIndirectFromA", -1, Nil),
     Load("Load", IndirectRegister("HL"), Register("B")),
     Load("LoadMemoryFromA", 0, Nil),
     Load("Push", "BC", Nil), Load("Pop", "AF", Nil),
     Control("Call", 64, Nil), Control("Reset", 8, Nil),
     Control("Return", Nil, Nil), Control("InterruptReturn", Nil, Nil),
     Arith("Add", IndirectRegister("HL"), Nil),
     Inst("Compare", Nil, IndirectRegister("HL"), Nil)}

\* c is the Cpu as it is, but for the memory and what run_cycle did before
\* execute.
NothingApplied(c) ==
    /\ c.registers = registers
    /\ c.sp = sp
    /\ c.interrupt_master_enable = interrupt_master_enable
    /\ c.halted = halted
    /\ c.cycle = cycle

\* The execute of a run_cycle returned an error.
ExecuteFailed(e) ==
    /\ e.kind \in {"loop_run_cycle", "main_run_cycle"}
    /\ FetchedOk(e)
    /\ ~e.info.executed

\* C34: whenever execute returns a memory error the eight registers, SP, IME,
\* the halted flag and the cycle counter have the values they had before the
\* instruction: no flag update, no HL post-increment and no SP change has been
\* applied.  Inside run_cycle PC is by then advanced past the failing
\* instruction, and the instruction is in the trace ring.
C34_NoPartialExecution ==
    [][/\ \A i \in MemoryInstructions :
             ~execute(Cpu, i).ok => NothingApplied(execute(Cpu, i).c)
       /\ ExecuteFailed(ev') =>
             /\ NothingApplied(CpuAfter)
             /\ ~ev'.ok
             /\ pc' = AddrAdd(pc, ev'.info.len)
             /\ last_instructions' =
                   push_trace(last_instructions,
                              <<map_address_into_rom(pc), ev'.info.inst>>)]_vars

\* RST 0x08 failed on its push with SP in ROM: SP is as LD SP,0x0100 left it,
\* PC is past the RST and the RST is the newest entry of the trace.
C34_Witness ==
    /\ ExecuteFailed(ev)
    /\ ev.info.inst = Control("Reset", 8, Nil)
    /\ sp = 256
    /\ pc = FetchedAt + 1
    /\ last_instructions[Len(last_instructions)][2] = ev.info.inst

\* A step of the loop of run_for_duration was taken with debug_halted set.
InCallDebugHalted == debug_halted /\ rpc # "idle" /\ rpc' # "idle"

\* C35: once debug_halted has been set during a run_for_duration call nothing
\* else changes in that call: PC, SP, IME, the cycle counter and the stack
\* memory keep the values they had when it was set; when HALT executes and the
\* dispatch that follows it fails, the runner neither fast-forwards the cycle
\* counter nor pumps and dispatches another interrupt.
C35_DebugHaltedFreezes ==
    [][InCallDebugHalted =>
          /\ pc' = pc
          /\ sp' = sp
          /\ interrupt_master_enable' = interrupt_master_enable
          /\ cycle' = cycle
          /\ ram' = ram
          /\ ~(Coalesced(ev') /\ ev'.info.pumped)]_vars

\* HALT has executed with IME set and SP in ROM, the dispatch after it failed
\* on its push and set debug_halted, and the CPU, still halted, stands before
\* the halted branch of the same pass.
C35_Witness ==
    /\ rpc = "if_halted"
    /\ debug_halted /\ halted
    /\ ev.kind = "loop_run_cycle" /\ ~ev.ok
    /\ ev.info.inst = Plain("Halt")
    /\ ev.info.executed /\ ev.info.int = "VBlank"
    /\ interrupt_master_enable
    /\ sp = 256
    /\ cycle < stop_at_cycle

\* The last step's pump returned an interrupt to a halted Cpu whose bit of the
\* interrupt-enable register is clear.
WokenDisabled ==
    Pumped /\ ev.info.pre.halted /\ ~is_enabled(ev.info.int, ev.info.pre.ie)

\* C36 (as claimed): after handle_interrupt ran for an interrupt the pump
\* returned, the Cpu is not halted, dispatched or not.
C36_EveryInterruptWakes == Pumped => ~halted

\* C36 (as amended): handle_interrupt clears halted for every interrupt the
\* pump returns unless the push of a dispatch fails; an interrupt whose
\* interrupt-enable bit is clear is never dispatched, so it wakes a halted Cpu
\* and leaves PC, SP, IME and memory as they were.
C36_InterruptWakes ==
    [][/\ \A int \in Interrupts :
            handle_interrupt(Cpu, int).ok => ~handle_interrupt(Cpu, int).c.halted
       /\ (Pumped' /\ ev'.ok) => ~halted'
       /\ (Pumped' /\ ~ev'.ok) =>
            /\ ev'.info.pre.ime /\ is_enabled(ev'.info.int, ev'.info.pre.ie)
            /\ halted' = ev'.info.pre.halted
       /\ WokenDisabled' =>
            /\ ev'.ok /\ ~halted'
            /\ pc' = ev'.info.pre.pc /\ sp' = ev'.info.pre.sp
            /\ interrupt_master_enable' = ev'.info.pre.ime
            /\ ram' = ram]_vars

\* HALT executed with IME set and the pump after it returned an interrupt that
\* is not enabled: the Cpu is awake, with nothing dispatched.
C36_Witness ==
    /\ ev.info.inst = Plain("Halt") /\ ev.info.executed
    /\ WokenDisabled /\ ev.info.pre.ime
    /\ ev.info.int = "LCDStat"
    /\ ~halted /\ interrupt_master_enable
    /\ pc = ev.info.pre.pc /\ sp = ev.info.pre.sp

\* The three addresses fetch_instruction reads.
Window == {AddrAdd(pc, k) : k \in 0..2}
Unreadable == {a \in Window : ~mmu_read(Cpu, a).ok}

\* The last step was a run_cycle that came to its fetch.
RanCycle(e) == e.kind \in {"main_run_cycle", "loop_run_cycle"}
Fetching == ~halted /\ pc \notin breakpoints

\* C37: fetch_instruction fails when any of the bytes at PC, PC+1 and PC+2
\* (modulo 2^16) cannot be read, also when the opcode at PC needs one byte;
\* when all three can be read it decodes exactly them; and a run_cycle whose
\* fetch fails returns the error with PC, SP, the registers, the cycle counter
\* and the trace ring as they were.
C37_FetchThreeBytes ==
    [][/\ Unreadable # {} => ~fetch_instruction(Cpu).ok
       /\ Unreadable = {} =>
            fetch_instruction(Cpu) =
                decode(mmu_read(Cpu, pc).v, mmu_read(Cpu, (pc + 1) % 65536).v,
                       mmu_read(Cpu, (pc + 2) % 65536).v)
       /\ (RanCycle(ev') /\ Fetching /\ Unreadable # {}) =>
            /\ ~ev'.ok /\ ev'.info.fetched /\ ~ev'.info.executed
            /\ ~ev'.info.pumped
            /\ pc' = pc /\ sp' = sp /\ registers' = registers
            /\ cycle' = cycle /\ last_instructions' = last_instructions
            /\ interrupt_master_enable' = interrupt_master_enable
            /\ halted' = halted /\ ram' = ram]_vars

\* run_cycle failed at 0x7FFF, where the opcode is the one-byte Nop and the
\* byte after it lies outside the ROM; the trace ring holds the jump only.
C37_Witness ==
    /\ RanCycle(ev) /\ ~ev.ok /\ ev.info.fetched
    /\ Fetching
    /\ pc = RomTop
    /\ mmu_read(Cpu, pc) = ReadOk(0)
    /\ Unreadable = {RomTop + 1, RomTop + 2}
    /\ Len(last_instructions) = 1

\* The instruction the last call of decode returned.
Decoded == decoded.ok /\ decoded.inst.t # "NotDecoded"

\* C38: decode never returns a Compare of an IndirectAddress, so cycles never
\* comes to its unimplemented!() arm; and for every instruction decode returns,
\* with the branch taken or not, cycles is a positive multiple of 4.
C38_CyclesTotal ==
    Decoded =>
        /\ decoded.inst.t = "Compare" =>
                decoded.inst.x.k \in {"Immediate", "Register", "IndirectRegister"}
        /\ \A branch_taken \in BOOLEAN :
              /\ cycles(decoded.inst, branch_taken) # Unimplemented
              /\ cycles(decoded.inst, branch_taken) > 0
              /\ cycles(decoded.inst, branch_taken) % 4 = 0

\* CP (HL) decoded: the Compare whose operand is not a register or immediate.
C38_Witness ==
    /\ bytes[1] = 190
    /\ decoded = DecodeOk(Inst("Compare", Nil, IndirectRegister("HL"), Nil), 1)
    /\ cycles(decoded.inst, TRUE) = 8

\* The window shows a paused Cpu, or a running one.
ShowsHalted == buttons.resume /\ buttons.step /\ ~buttons.pause
ShowsRunning == buttons.pause /\ ~buttons.resume /\ ~buttons.step

\* C39 (as claimed): whenever the GTK thread has the turn, the buttons show
\* the Cpu's pause state: Resume and Step sensitive and Pause not when it is
\* debug-halted, however it came to be, and the reverse when it runs.
C39_ButtonsReflectPause ==
    rpc = "idle" => IF debug_halted THEN ShowsHalted ELSE ShowsRunning

\* The runner returned with the Cpu debug-halted by a failed fetch, and the
\* window still shows a running Cpu.
C39_Witness ==
    /\ rpc = "idle" /\ ev.kind = "return"
    /\ debug_halted
    /\ cart = 11 /\ pc = RomTop + 1
    /\ ShowsRunning

\* C40: after emit_sample local_queue holds fewer than 10 samples; the ring
\* buffer receives whole batches of exactly 10, in the order of emission and
\* each sample once, from a thread that holds the mutex; the callback pops
\* while it holds the mutex, and what it reads is never part of a batch.
C40_AudioHandOff ==
    /\ ppc.at = "idle" => Len(local_queue) < BatchSize
    /\ ppc.at # "idle" => Len(local_queue) = BatchSize
    /\ pushed = [k \in 1..Len(pushed) |-> k]
    /\ ppc.at # "push" =>
          /\ Len(pushed) % BatchSize = 0
          /\ Len(pushed) + Len(local_queue) = emitted
    /\ ppc.at = "push" => mutex = "emulator"
    /\ cpc.at = "pop" => mutex = "audio"
    /\ seen % BatchSize = 0
    /\ \E k \in 0..Len(pushed) : queue = SubSeq(pushed, k + 1, Len(pushed))

\* Two batches went to the ring buffer, the callback took four samples of the
\* first and read again after the second, and three samples wait locally.
C40_Witness ==
    /\ emitted = 2 * BatchSize + 3
    /\ Len(local_queue) = 3
    /\ seen = 2 * BatchSize
    /\ queue # <<>> /\ Head(queue) > BatchSize
    /\ ppc.at = "idle" /\ cpc.at = "idle"

====
